---------------------------- MODULE Spec2Model ----------------------------
(***************************************************************************)
(* Model of the style-assets catalog services: ColorSchemeService,         *)
(* FontService and TemplateService (src/services) and the routes of        *)
(* src/app.py that call them.                                              *)
(*                                                                         *)
(* Names, ids, categories, color values and file names are strings, and    *)
(* the string functions of the code (lower, replace, the color regular     *)
(* expressions) are computed character by character.  Timestamps and the   *)
(* purely descriptive fields of a record (description, usage,              *)
(* accessibility, created, ...) are passive data that no modelled branch   *)
(* reads; they are left out of the records.                                *)
(***************************************************************************)
EXTENDS Integers, Sequences, FiniteSets, TLC

VARIABLES
    scheme_registry,    \* ColorSchemeService.scheme_registry
    scheme_files,       \* the files of color_schemes/: file name -> data written
    font_registry,      \* FontService.font_registry
    font_files,         \* the set of file names present in fonts/
    template_registry,  \* TemplateService.template_registry
    template_files,     \* the files of templates/: file name -> content
    asset_registry,     \* AssetManager.asset_registry
    bundle_files,       \* the files of bundles/: file name -> archive
    ret,                \* the last request and the value its handler returned
    okCreates,          \* history: <<catalog, id>> -> create calls that returned success
    descriptors,        \* history: scheme id -> the descriptor whose create succeeded
    fetched,            \* history: <<catalog, id>> -> get calls that returned the record
    nops,               \* number of requests served (sequential specification)
    threads,            \* per-thread position and locals (concurrent specification)
    probe               \* input and results of the id-normalization specification

vars == <<scheme_registry, scheme_files, font_registry, font_files,
          template_registry, template_files, asset_registry, bundle_files,
          ret, okCreates, descriptors, fetched, nops, threads, probe>>

-----------------------------------------------------------------------------
(* Bounds of the model *)

\* requests served in a run of the sequential specification
MaxOps == 2
\* length of the names enumerated by the normalization specification
MaxNameLen == 2

-----------------------------------------------------------------------------
(* The names and color mappings the requests of the model carry *)

SchemeNames == {"Test Blue", "test-blue", "Academic Blue", "academic-blue", "Sky"}

FontNames == {"Times New Roman", "times-new-roman", "My Font", "my-font"}

TemplateNames == {"IEEE Article HTML", "ieee-article-html", "Missing"}

ValidColors == << <<"primary", "#0af">>, <<"accent", "rgb(1, 2,3)">> >>

OneBadColor == << <<"primary", "blue">> >>

TwoBadColors == << <<"primary", "#12345">>, <<"accent", "#fff">>, <<"text", "rgb(1,2)">> >>

ColorMaps == {<<>>, ValidColors, OneBadColor, TwoBadColors}

-----------------------------------------------------------------------------
(* Strings *)

Ch(s, i) == SubSeq(s, i, i)

StrTail(s) == SubSeq(s, 2, Len(s))

UpperCase == "ABCDEFGHIJKLMNOPQRSTUVWXYZ"
LowerCase == "abcdefghijklmnopqrstuvwxyz"

\* str.lower() on one (ASCII) character
LowerChar(c) ==
    IF \E i \in 1..Len(UpperCase) : Ch(UpperCase, i) = c
    THEN Ch(LowerCase, CHOOSE i \in 1..Len(UpperCase) : Ch(UpperCase, i) = c)
    ELSE c

RECURSIVE StrLower(_)
StrLower(s) ==
    IF Len(s) = 0 THEN "" ELSE LowerChar(Ch(s, 1)) \o StrLower(StrTail(s))

\* str.replace(old, new) for a one-character old
RECURSIVE StrReplace(_, _, _)
StrReplace(s, old, new) ==
    IF Len(s) = 0 THEN ""
    ELSE (IF Ch(s, 1) = old THEN new ELSE Ch(s, 1)) \o StrReplace(StrTail(s), old, new)

\* name.lower().replace(' ', '_').replace('-', '_')
Normalize(name) == StrReplace(StrReplace(StrLower(name), " ", "_"), "-", "_")

\* name.lower().replace(' ', '_'): the stem of the file names (hyphens are kept)
Stem(name) == StrReplace(StrLower(name), " ", "_")

\* The two functions on the names the requests carry, computed once.
RequestNames == SchemeNames \cup FontNames \cup TemplateNames \cup {""}

NormalizedNames == [n \in RequestNames |-> Normalize(n)]

StemmedNames == [n \in RequestNames |-> Stem(n)]

NormalizeId(name) ==
    IF name \in DOMAIN NormalizedNames THEN NormalizedNames[name] ELSE Normalize(name)

\* A plausible slip: the hyphen is not replaced.
generate_scheme_id_NoHyphen(scheme_name) == StrReplace(StrLower(scheme_name), " ", "_")

generate_scheme_id(scheme_name) == NormalizeId(scheme_name)

generate_font_id(font_name) == NormalizeId(font_name)

generate_template_id(template_name) == NormalizeId(template_name)

FileStem(name) ==
    IF name \in DOMAIN StemmedNames THEN StemmedNames[name] ELSE Stem(name)

-----------------------------------------------------------------------------
(* Dictionaries: a Python dict is a function; d.get / key tests on DOMAIN *)

Has(d, k) == k \in DOMAIN d

Put(d, k, v) == [x \in DOMAIN d \cup {k} |-> IF x = k THEN v ELSE d[x]]

GetOr(d, k, default) == IF k \in DOMAIN d THEN d[k] ELSE default

Restrict(d, S) == [x \in S |-> d[x]]

\* the required fields missing from a descriptor, in the order of required_fields
MissingFields(required, d) == SelectSeq(required, LAMBDA f : ~Has(d, f))

-----------------------------------------------------------------------------
(* Color values: the three regular expressions of _validate_colors *)

CharsOf(s) == {Ch(s, i) : i \in 1..Len(s)}

HexDigits == CharsOf("0123456789abcdefABCDEF")
Digits == CharsOf("0123456789")
DigitsOrDot == Digits \cup {"."}
\* \s
Whitespace == {" ", "\t", "\n", "\r", "\f"}

\* '$' matches at the end of the string and before a newline that ends it
AtEnd(s, i) == i = Len(s) + 1 \/ (i = Len(s) /\ Ch(s, i) = "\n")

\* the first position >= i whose character is not in set (Len(s) + 1 if none)
SkipWhile(s, i, set) ==
    LET stops == {j \in i..Len(s) : Ch(s, j) \notin set}
    IN  IF stops = {} THEN Len(s) + 1
        ELSE CHOOSE j \in stops : \A k \in stops : j <= k

\* a literal at position i: the position after it, or 0
Lit(s, i, lit) ==
    IF i >= 1 /\ i + Len(lit) - 1 <= Len(s) /\ SubSeq(s, i, i + Len(lit) - 1) = lit
    THEN i + Len(lit) ELSE 0

\* \s* class+ \s* at position i: the position after it, or 0
Component(s, i, class) ==
    IF i = 0 THEN 0
    ELSE LET a == SkipWhile(s, i, Whitespace)
             b == SkipWhile(s, a, class)
         IN  IF b = a THEN 0 ELSE SkipWhile(s, b, Whitespace)

\* ^#([A-Fa-f0-9]{6}|[A-Fa-f0-9]{3})$
HexMatch(s) ==
    \E n \in {3, 6} :
        /\ Len(s) >= n + 1
        /\ Ch(s, 1) = "#"
        /\ \A i \in 2..(n + 1) : Ch(s, i) \in HexDigits
        /\ AtEnd(s, n + 2)

\* ^rgb\(\s*\d+\s*,\s*\d+\s*,\s*\d+\s*\)$
RgbMatch(s) ==
    LET p1 == Component(s, Lit(s, 1, "rgb("), Digits)
        p2 == Component(s, Lit(s, p1, ","), Digits)
        p3 == Component(s, Lit(s, p2, ","), Digits)
        p4 == Lit(s, p3, ")")
    IN  p4 # 0 /\ AtEnd(s, p4)

\* ^rgba\(\s*\d+\s*,\s*\d+\s*,\s*\d+\s*,\s*[\d.]+\s*\)$
RgbaMatch(s) ==
    LET p1 == Component(s, Lit(s, 1, "rgba("), Digits)
        p2 == Component(s, Lit(s, p1, ","), Digits)
        p3 == Component(s, Lit(s, p2, ","), Digits)
        p4 == Component(s, Lit(s, p3, ","), DigitsOrDot)
        p5 == Lit(s, p4, ")")
    IN  p5 # 0 /\ AtEnd(s, p5)

ColorMatches(color_value) ==
    HexMatch(color_value) \/ RgbMatch(color_value) \/ RgbaMatch(color_value)

\* The match on the color values the requests carry, computed once.
RequestColors == UNION {{m[i][2] : i \in 1..Len(m)} : m \in ColorMaps}

MatchedColors == [v \in RequestColors |-> ColorMatches(v)]

ColorOk(color_value) ==
    IF color_value \in DOMAIN MatchedColors THEN MatchedColors[color_value]
    ELSE ColorMatches(color_value)

\* A colors mapping is the sequence of its <<role, value>> items, in dict order.
ColorError(item) == "Invalid color format for " \o item[1] \o ": " \o item[2]

RECURSIVE ColorErrors(_)
ColorErrors(colors) ==
    IF colors = <<>> THEN <<>>
    ELSE (IF ColorOk(Head(colors)[2]) THEN <<>> ELSE <<ColorError(Head(colors))>>)
         \o ColorErrors(Tail(colors))

\* A plausible slip: the loop stops at the first malformed value.
RECURSIVE FirstColorError(_)
FirstColorError(colors) ==
    IF colors = <<>> THEN <<>>
    ELSE IF ColorOk(Head(colors)[2]) THEN FirstColorError(Tail(colors))
         ELSE <<ColorError(Head(colors))>>

validate_colors_FailFast(colors) ==
    [valid |-> FirstColorError(colors) = <<>>, errors |-> FirstColorError(colors)]

validate_colors_AcceptAll(colors) == [valid |-> TRUE, errors |-> <<>>]

validate_colors(colors) ==
    [valid |-> ColorErrors(colors) = <<>>, errors |-> ColorErrors(colors)]

-----------------------------------------------------------------------------
(* Values shared by the handlers *)

\* os.path.join(directory, filename)
PathJoin(directory, filename) == directory \o "/" \o filename

\* Python's None, as a handler's return value
None == [none |-> TRUE]

\* list.append
Append1(list, x) == list \o <<x>>

\* the request and the response of a handler, as ret holds them
Response(op, arg, result, status) ==
    [op |-> op, arg |-> arg, result |-> result, status |-> status]

\* the routes of app.py that answer 404 when the service returns a falsy value;
\* NoRoute is the status of a service method that app.py does not route
NoRoute == "-"

RouteStatus(result) == IF result = None THEN "404" ELSE "200"

\* download_font / download_template: "if path and os.path.exists(path)"
DownloadStatus(result, directory, files) ==
    IF result # None /\ \E f \in DOMAIN files : PathJoin(directory, f) = result.path
    THEN "200" ELSE "404"

\* the history of successful creates
CountOk(hist, catalog, id) == GetOr(hist, <<catalog, id>>, 0)

NoteCreate(hist, catalog, result, id) ==
    IF result.success THEN Put(hist, <<catalog, id>>, CountOk(hist, catalog, id) + 1)
    ELSE hist

\* the history of the gets that returned a record
NoteFetch(hist, catalog, result, id) ==
    IF result = None THEN hist
    ELSE Put(hist, <<catalog, id>>, CountOk(hist, catalog, id) + 1)

\* the history of the descriptors of successful create_scheme calls
NoteDescriptor(hist, result, scheme_data) ==
    IF result.success THEN Put(hist, result.scheme_id, scheme_data) ELSE hist

-----------------------------------------------------------------------------
(* ColorSchemeService *)

Colors10(p, s, a, b, t, t2, bo, h, e, su) ==
    << <<"primary", p>>, <<"secondary", s>>, <<"accent", a>>, <<"background", b>>,
       <<"text", t>>, <<"text_secondary", t2>>, <<"border", bo>>, <<"highlight", h>>,
       <<"error", e>>, <<"success", su>> >>

default_schemes ==
    << [name |-> "Academic Blue", category |-> "academic",
        colors |-> Colors10("#003366", "#0066CC", "#3399FF", "#FFFFFF", "#000000",
                            "#333333", "#CCCCCC", "#FFFF99", "#CC0000", "#006600"),
        compatibility |-> <<"ieee", "technical">>],
       [name |-> "Nature Green", category |-> "academic",
        colors |-> Colors10("#2D5016", "#4A7C28", "#6FA83B", "#FFFFFF", "#000000",
                            "#2D2D2D", "#B8D4A5", "#E8F5E8", "#B71C1C", "#2E7D32"),
        compatibility |-> <<"nature", "environmental">>],
       [name |-> "Modern Grayscale", category |-> "modern",
        colors |-> Colors10("#2C2C2C", "#4A4A4A", "#007ACC", "#FFFFFF", "#1A1A1A",
                            "#666666", "#E0E0E0", "#F5F5F5", "#E53E3E", "#38A169"),
        compatibility |-> <<"modern", "minimal">>],
       [name |-> "Corporate Blue", category |-> "corporate",
        colors |-> Colors10("#1E3A8A", "#3B82F6", "#60A5FA", "#FFFFFF", "#111827",
                            "#4B5563", "#D1D5DB", "#EBF8FF", "#DC2626", "#059669"),
        compatibility |-> <<"corporate", "business">>],
       [name |-> "Creative Palette", category |-> "creative",
        colors |-> Colors10("#7C3AED", "#A855F7", "#C084FC", "#FEFEFE", "#1F2937",
                            "#374151", "#E5E7EB", "#FDF4FF", "#F87171", "#34D399"),
        compatibility |-> <<"creative", "artistic">>] >>

initialize_scheme_registry ==
    [schemes |-> <<>>,
     categories |-> [c \in {"academic", "modern", "corporate", "creative"} |-> <<>>],
     metadata |-> [total_schemes |-> 0]]

\* json.dump(scheme_data) into color_schemes/<stem>.json
save_scheme_to_file(files, scheme_data) ==
    Put(files, FileStem(scheme_data.name) \o ".json", scheme_data)

\* the loop of _create_default_schemes over the schemes left
RECURSIVE RegisterDefaultSchemes(_, _)
RegisterDefaultSchemes(state, left) ==
    IF left = <<>> THEN state
    ELSE LET scheme_data == Head(left)
             scheme_id == generate_scheme_id(scheme_data.name)
             reg == state.registry
             rec == [id |-> scheme_id, name |-> scheme_data.name,
                     category |-> scheme_data.category, colors |-> scheme_data.colors,
                     compatibility |-> scheme_data.compatibility,
                     status |-> "active", usage_count |-> 0]
             category == scheme_data.category
             cats == IF Has(reg.categories, category)
                     THEN [reg.categories EXCEPT ![category] = Append1(@, scheme_id)]
                     ELSE reg.categories
         IN  RegisterDefaultSchemes(
                 [registry |-> [reg EXCEPT !.schemes = Put(@, scheme_id, rec),
                                           !.categories = cats],
                  files |-> save_scheme_to_file(state.files, scheme_data)],
                 Tail(left))

create_default_schemes ==
    LET done == RegisterDefaultSchemes(
                    [registry |-> initialize_scheme_registry, files |-> <<>>],
                    default_schemes)
    IN  [done EXCEPT !.registry.metadata.total_schemes =
                         Cardinality(DOMAIN done.registry.schemes)]

\* "if scheme_id in self.scheme_registry['schemes']"
SchemeExists_Never(reg, scheme_id) == FALSE

SchemeExists(reg, scheme_id) == Has(reg.schemes, scheme_id)

\* "Add to category" of create_scheme and register_custom_font
AddToCategory_Misfiled(categories, category, id) ==
    LET first == CHOOSE c \in DOMAIN categories : \A d \in DOMAIN categories :
                     Len(categories[c]) >= Len(categories[d])
    IN  [categories EXCEPT ![first] = Append1(@, id)]

AddToCategory_Twice(categories, category, id) ==
    IF Has(categories, category)
    THEN [categories EXCEPT ![category] = Append1(Append1(@, id), id)]
    ELSE Put(categories, category, <<id, id>>)

AddToCategory_KnownOnly(categories, category, id) ==
    IF Has(categories, category)
    THEN [categories EXCEPT ![category] = Append1(@, id)]
    ELSE categories

AddToCategory(categories, category, id) ==
    IF Has(categories, category)
    THEN [categories EXCEPT ![category] = Append1(@, id)]
    ELSE Put(categories, category, <<id>>)

scheme_required_fields == <<"name", "category", "colors">>

\* create_scheme: the registry and files it leaves, and the value it returns
create_scheme(reg, files, scheme_data) ==
    LET missing == MissingFields(scheme_required_fields, scheme_data)
        same(result) == [registry |-> reg, files |-> files, result |-> result]
    IN
      IF missing # <<>>
      THEN same([success |-> FALSE,
                 error |-> "Missing required field: " \o Head(missing)])
      ELSE
        LET scheme_id == generate_scheme_id(scheme_data.name) IN
        IF SchemeExists(reg, scheme_id)
        THEN same([success |-> FALSE,
                   error |-> "Color scheme " \o scheme_data.name \o " already exists"])
        ELSE
          LET color_validation == validate_colors(scheme_data.colors) IN
          IF ~color_validation.valid
          THEN same([success |-> FALSE, error |-> "Invalid color format",
                     details |-> color_validation.errors])
          ELSE
            LET scheme_info ==
                    [id |-> scheme_id, name |-> scheme_data.name,
                     category |-> scheme_data.category,
                     colors |-> scheme_data.colors,
                     compatibility |-> GetOr(scheme_data, "compatibility", <<>>),
                     status |-> "active", usage_count |-> 0]
                schemes2 == Put(reg.schemes, scheme_id, scheme_info)
            IN  [registry |->
                     [schemes |-> schemes2,
                      categories |-> AddToCategory(reg.categories,
                                                   scheme_info.category, scheme_id),
                      metadata |-> [total_schemes |-> Cardinality(DOMAIN schemes2)]],
                 files |-> save_scheme_to_file(files, scheme_info),
                 result |-> [success |-> TRUE, scheme_id |-> scheme_id]]

\* "self.scheme_registry['schemes'][scheme_id]['usage_count'] += 1" and its twins
IncrementCount_Twice(records, id, counter) ==
    [records EXCEPT ![id] = [@ EXCEPT ![counter] = @ + 2]]

IncrementCount(records, id, counter) ==
    [records EXCEPT ![id] = [@ EXCEPT ![counter] = @ + 1]]

\* get_scheme with the copy taken after the increment
get_scheme_CopyAfter(reg, scheme_name) ==
    LET scheme_id == generate_scheme_id(scheme_name) IN
    IF Has(reg.schemes, scheme_id)
    THEN LET counted == IncrementCount(reg.schemes, scheme_id, "usage_count")
         IN  [registry |-> [reg EXCEPT !.schemes = counted],
              result |-> Put(counted[scheme_id], "metadata",
                  [preview_url |-> "/api/color-schemes/" \o scheme_name \o "/preview",
                   css_url |-> "/api/color-schemes/" \o scheme_name \o "/css"])]
    ELSE [registry |-> reg, result |-> None]

\* get_scheme: the registry it leaves and the value it returns
get_scheme(reg, scheme_name) ==
    LET scheme_id == generate_scheme_id(scheme_name) IN
    IF Has(reg.schemes, scheme_id)
    THEN LET scheme_info == reg.schemes[scheme_id]
         IN  [registry |-> [reg EXCEPT !.schemes =
                                IncrementCount(@, scheme_id, "usage_count")],
              result |-> Put(scheme_info, "metadata",
                  [preview_url |-> "/api/color-schemes/" \o scheme_name \o "/preview",
                   css_url |-> "/api/color-schemes/" \o scheme_name \o "/css"])]
    ELSE [registry |-> reg, result |-> None]

\* get_available_schemes (the order of the list is left out: a set of summaries)
get_available_schemes(reg) ==
    [schemes |-> {[id |-> id, name |-> reg.schemes[id].name,
                   category |-> reg.schemes[id].category,
                   compatibility |-> reg.schemes[id].compatibility,
                   status |-> reg.schemes[id].status] : id \in DOMAIN reg.schemes},
     categories |-> [c \in DOMAIN reg.categories |-> Len(reg.categories[c])],
     total_schemes |-> Cardinality(DOMAIN reg.schemes)]

\* the ids of an index list that are keys of the primary map, in list order
PresentIds(ids, records) == SelectSeq(ids, LAMBDA id : Has(records, id))

get_schemes_by_category_EmptyOnUnknown(reg, category) ==
    LET ids == IF Has(reg.categories, category)
               THEN PresentIds(reg.categories[category], reg.schemes) ELSE <<>>
    IN  [category |-> category,
         schemes |-> [i \in 1..Len(ids) |->
                         [id |-> ids[i], name |-> reg.schemes[ids[i]].name,
                          colors |-> reg.schemes[ids[i]].colors]],
         count |-> Len(ids)]

get_schemes_by_category(reg, category) ==
    IF ~Has(reg.categories, category)
    THEN [error |-> "Unknown category: " \o category,
          available_categories |-> DOMAIN reg.categories]
    ELSE LET ids == PresentIds(reg.categories[category], reg.schemes)
         IN  [category |-> category,
              schemes |-> [i \in 1..Len(ids) |->
                              [id |-> ids[i], name |-> reg.schemes[ids[i]].name,
                               colors |-> reg.schemes[ids[i]].colors]],
              count |-> Len(ids)]

\* "style_name in info.get('compatibility', [])"
InList(x, list) == \E i \in 1..Len(list) : list[i] = x

get_schemes_by_compatibility(reg, style_name) ==
    LET hits == {id \in DOMAIN reg.schemes : InList(style_name, reg.schemes[id].compatibility)}
    IN  [style |-> style_name,
         compatible_schemes |-> {[id |-> id, name |-> reg.schemes[id].name,
                                  category |-> reg.schemes[id].category,
                                  colors |-> reg.schemes[id].colors] : id \in hits},
         count |-> Cardinality(hits)]

-----------------------------------------------------------------------------
(* FontService *)

default_fonts ==
    << [name |-> "Times New Roman", family |-> "Times", category |-> "serif",
        formats |-> <<"ttf">>, compatibility |-> <<"ieee", "nature", "apa">>],
       [name |-> "Arial", family |-> "Arial", category |-> "sans_serif",
        formats |-> <<"ttf">>, compatibility |-> <<"modern", "web">>],
       [name |-> "Helvetica", family |-> "Helvetica", category |-> "sans_serif",
        formats |-> <<"ttf", "otf">>, compatibility |-> <<"modern", "corporate">>],
       [name |-> "Courier New", family |-> "Courier", category |-> "monospace",
        formats |-> <<"ttf">>, compatibility |-> <<"technical", "code">>],
       [name |-> "Georgia", family |-> "Georgia", category |-> "serif",
        formats |-> <<"ttf">>, compatibility |-> <<"web", "modern">>] >>

initialize_font_registry ==
    [fonts |-> <<>>,
     categories |-> [c \in {"serif", "sans_serif", "monospace", "decorative"} |-> <<>>],
     metadata |-> [total_fonts |-> 0]]

\* the loop of _register_default_fonts over the fonts left
RECURSIVE RegisterDefaultFonts(_, _)
RegisterDefaultFonts(reg, left) ==
    IF left = <<>> THEN reg
    ELSE LET font_info == Head(left)
             font_id == generate_font_id(font_info.name)
             rec == [id |-> font_id, name |-> font_info.name,
                     family |-> font_info.family, category |-> font_info.category,
                     formats |-> font_info.formats,
                     compatibility |-> font_info.compatibility,
                     status |-> "available", download_count |-> 0]
             category == font_info.category
             cats == IF Has(reg.categories, category)
                     THEN [reg.categories EXCEPT ![category] = Append1(@, font_id)]
                     ELSE reg.categories
         IN  RegisterDefaultFonts(
                 [reg EXCEPT !.fonts = Put(@, font_id, rec), !.categories = cats],
                 Tail(left))

register_default_fonts ==
    LET done == RegisterDefaultFonts(initialize_font_registry, default_fonts)
    IN  [done EXCEPT !.metadata.total_fonts = Cardinality(DOMAIN done.fonts)]

get_available_fonts(reg) ==
    [fonts |-> {[id |-> id, name |-> reg.fonts[id].name,
                 family |-> reg.fonts[id].family,
                 category |-> reg.fonts[id].category,
                 formats |-> reg.fonts[id].formats,
                 compatibility |-> reg.fonts[id].compatibility,
                 status |-> reg.fonts[id].status] : id \in DOMAIN reg.fonts},
     categories |-> [c \in DOMAIN reg.categories |-> Len(reg.categories[c])],
     total_fonts |-> Cardinality(DOMAIN reg.fonts)]

\* A plausible reading of the catalog contract: the detail fetch counts as a download.
get_font_details_Counting(reg, font_name) ==
    LET font_id == generate_font_id(font_name) IN
    IF Has(reg.fonts, font_id)
    THEN [registry |-> [reg EXCEPT !.fonts =
                            IncrementCount(@, font_id, "download_count")],
          result |-> reg.fonts[font_id]]
    ELSE [registry |-> reg, result |-> None]

\* get_font_details: the registry it leaves and the value it returns
get_font_details(reg, font_name) ==
    LET font_id == generate_font_id(font_name) IN
    IF Has(reg.fonts, font_id)
    THEN [registry |-> reg,
          result |-> Put(reg.fonts[font_id], "metadata",
              [download_url |-> "/api/fonts/" \o font_name \o "/download",
               preview_url |-> "/api/fonts/" \o font_name \o "/preview"])]
    ELSE [registry |-> reg, result |-> None]

\* the formats whose file <stem>.<ext> exists in fonts/, in the order of the list
FormatsPresent_FixedOrder(files, font_name, formats) ==
    SelectSeq(<<"ttf", "otf", "woff", "woff2">>,
              LAMBDA ext : /\ \E i \in 1..Len(formats) : formats[i] = ext
                           /\ Has(files, FileStem(font_name) \o "." \o ext))

FormatsPresent(files, font_name, formats) ==
    SelectSeq(formats, LAMBDA ext : Has(files, FileStem(font_name) \o "." \o ext))

\* _create_font_placeholder: writes fonts/<stem>_placeholder.txt
create_font_placeholder(files, font_name) ==
    [files |-> Put(files, FileStem(font_name) \o "_placeholder.txt",
                   "Font: " \o font_name \o " Status: Placeholder file"),
     path |-> PathJoin("fonts", FileStem(font_name) \o "_placeholder.txt")]

\* A plausible slip: the placeholder is written for an unregistered font too.
get_font_path_PlaceholderOnMiss(reg, files, font_name) ==
    LET font_id == generate_font_id(font_name)
        formats == IF Has(reg.fonts, font_id) THEN reg.fonts[font_id].formats ELSE <<>>
        found == FormatsPresent(files, font_name, formats)
        placeholder == create_font_placeholder(files, font_name)
    IN  IF found # <<>>
        THEN [registry |-> [reg EXCEPT !.fonts =
                                IncrementCount(@, font_id, "download_count")],
              files |-> files,
              result |-> [path |-> PathJoin("fonts",
                              FileStem(font_name) \o "." \o Head(found))]]
        ELSE [registry |-> reg, files |-> placeholder.files,
              result |-> [path |-> placeholder.path]]

\* get_font_path: the registry and files it leaves and the path it returns
get_font_path(reg, files, font_name) ==
    LET font_id == generate_font_id(font_name) IN
    IF Has(reg.fonts, font_id)
    THEN LET found == FormatsPresent(files, font_name, reg.fonts[font_id].formats)
             placeholder == create_font_placeholder(files, font_name)
         IN  IF found # <<>>
             THEN [registry |-> [reg EXCEPT !.fonts =
                                     IncrementCount(@, font_id, "download_count")],
                   files |-> files,
                   result |-> [path |-> PathJoin("fonts",
                                   FileStem(font_name) \o "." \o Head(found))]]
             ELSE [registry |-> reg, files |-> placeholder.files,
                   result |-> [path |-> placeholder.path]]
    ELSE [registry |-> reg, files |-> files, result |-> None]

get_fonts_by_category(reg, category) ==
    IF ~Has(reg.categories, category)
    THEN [error |-> "Unknown category: " \o category,
          available_categories |-> DOMAIN reg.categories]
    ELSE LET ids == PresentIds(reg.categories[category], reg.fonts)
         IN  [category |-> category,
              fonts |-> [i \in 1..Len(ids) |->
                            [id |-> ids[i], name |-> reg.fonts[ids[i]].name,
                             family |-> reg.fonts[ids[i]].family]],
              count |-> Len(ids)]

get_fonts_by_compatibility(reg, style_name) ==
    LET hits == {id \in DOMAIN reg.fonts : InList(style_name, reg.fonts[id].compatibility)}
    IN  [style |-> style_name,
         compatible_fonts |-> {[id |-> id, name |-> reg.fonts[id].name,
                                family |-> reg.fonts[id].family,
                                category |-> reg.fonts[id].category] : id \in hits},
         count |-> Cardinality(hits)]

\* "if font_id in self.font_registry['fonts']"
FontExists(reg, font_id) == Has(reg.fonts, font_id)

font_required_fields == <<"name", "family", "category">>

\* register_custom_font: the registry it leaves and the value it returns
register_custom_font(reg, font_data) ==
    LET missing == MissingFields(font_required_fields, font_data) IN
    IF missing # <<>>
    THEN [registry |-> reg,
          result |-> [success |-> FALSE,
                      error |-> "Missing required field: " \o Head(missing)]]
    ELSE
      LET font_id == generate_font_id(font_data.name) IN
      IF FontExists(reg, font_id)
      THEN [registry |-> reg,
            result |-> [success |-> FALSE,
                        error |-> "Font " \o font_data.name \o " already exists"]]
      ELSE
        LET font_info == [id |-> font_id, name |-> font_data.name,
                          family |-> font_data.family,
                          category |-> font_data.category,
                          formats |-> GetOr(font_data, "formats", <<"ttf">>),
                          compatibility |-> GetOr(font_data, "compatibility", <<>>),
                          status |-> "available", download_count |-> 0]
            fonts2 == Put(reg.fonts, font_id, font_info)
        IN  [registry |->
                 [fonts |-> fonts2,
                  categories |-> AddToCategory(reg.categories,
                                               font_info.category, font_id),
                  metadata |-> [total_fonts |-> Cardinality(DOMAIN fonts2)]],
             result |-> [success |-> TRUE, font_id |-> font_id]]

-----------------------------------------------------------------------------
(* TemplateService *)

\* the template bodies are opaque text
templates_data ==
    << [name |-> "IEEE Article HTML", category |-> "html", file_extension |-> "html",
        content |-> "ieee_html_template", style_compatibility |-> <<"ieee">>],
       [name |-> "Nature Article HTML", category |-> "html", file_extension |-> "html",
        content |-> "nature_html_template", style_compatibility |-> <<"nature">>],
       [name |-> "IEEE CSS Stylesheet", category |-> "css", file_extension |-> "css",
        content |-> "ieee_css_template", style_compatibility |-> <<"ieee">>],
       [name |-> "Modern CSS Framework", category |-> "css", file_extension |-> "css",
        content |-> "modern_css_template", style_compatibility |-> <<"modern", "web">>],
       [name |-> "LaTeX IEEE Template", category |-> "latex", file_extension |-> "tex",
        content |-> "latex_ieee_template", style_compatibility |-> <<"ieee">>],
       [name |-> "Markdown Academic", category |-> "markdown", file_extension |-> "md",
        content |-> "markdown_template",
        style_compatibility |-> <<"academic", "github">>] >>

initialize_template_registry ==
    [templates |-> <<>>,
     categories |-> [c \in {"html", "css", "latex", "markdown"} |-> <<>>],
     metadata |-> [total_templates |-> 0]]

save_template_to_file(files, template_data) ==
    Put(files, FileStem(template_data.name) \o "." \o template_data.file_extension,
        template_data.content)

\* the loop of _create_default_templates over the templates left
RECURSIVE RegisterDefaultTemplates(_, _)
RegisterDefaultTemplates(state, left) ==
    IF left = <<>> THEN state
    ELSE LET template_data == Head(left)
             template_id == generate_template_id(template_data.name)
             reg == state.registry
             rec == [id |-> template_id, name |-> template_data.name,
                     category |-> template_data.category,
                     file_extension |-> template_data.file_extension,
                     content |-> template_data.content,
                     style_compatibility |-> template_data.style_compatibility,
                     status |-> "active", usage_count |-> 0]
             category == template_data.category
             cats == IF Has(reg.categories, category)
                     THEN [reg.categories EXCEPT ![category] = Append1(@, template_id)]
                     ELSE reg.categories
         IN  RegisterDefaultTemplates(
                 [registry |-> [reg EXCEPT !.templates = Put(@, template_id, rec),
                                           !.categories = cats],
                  files |-> save_template_to_file(state.files, template_data)],
                 Tail(left))

create_default_templates ==
    LET done == RegisterDefaultTemplates(
                    [registry |-> initialize_template_registry, files |-> <<>>],
                    templates_data)
    IN  [done EXCEPT !.registry.metadata.total_templates =
                         Cardinality(DOMAIN done.registry.templates)]

get_available_templates(reg) ==
    [templates |-> {[id |-> id, name |-> reg.templates[id].name,
                     category |-> reg.templates[id].category,
                     file_extension |-> reg.templates[id].file_extension,
                     style_compatibility |-> reg.templates[id].style_compatibility,
                     status |-> reg.templates[id].status] : id \in DOMAIN reg.templates},
     categories |-> [c \in DOMAIN reg.categories |-> Len(reg.categories[c])],
     total_templates |-> Cardinality(DOMAIN reg.templates)]

\* get_template: the registry it leaves and the value it returns
get_template(reg, template_name) ==
    LET template_id == generate_template_id(template_name) IN
    IF Has(reg.templates, template_id)
    THEN LET template_info == reg.templates[template_id]
         IN  [registry |-> [reg EXCEPT !.templates =
                                IncrementCount(@, template_id, "usage_count")],
              result |-> Put(template_info, "metadata",
                  [download_url |-> "/api/templates/" \o template_name \o "/download",
                   preview_url |-> "/api/templates/" \o template_name \o "/preview"])]
    ELSE [registry |-> reg, result |-> None]

\* _create_template_placeholder: writes templates/<stem>_placeholder.<ext>
create_template_placeholder(files, template_name, template_info) ==
    LET filename == FileStem(template_name) \o "_placeholder."
                        \o template_info.file_extension
    IN  [files |-> Put(files, filename, "Template: " \o template_name),
         path |-> PathJoin("templates", filename)]

\* get_template_path: the files it leaves and the path it returns
get_template_path(reg, files, template_name) ==
    LET template_id == generate_template_id(template_name) IN
    IF Has(reg.templates, template_id)
    THEN LET template_info == reg.templates[template_id]
             filename == FileStem(template_name) \o "." \o template_info.file_extension
             placeholder == create_template_placeholder(files, template_name,
                                                        template_info)
         IN  IF Has(files, filename)
             THEN [files |-> files, result |-> [path |-> PathJoin("templates", filename)]]
             ELSE [files |-> placeholder.files, result |-> [path |-> placeholder.path]]
    ELSE [files |-> files, result |-> None]

get_templates_by_category(reg, category) ==
    IF ~Has(reg.categories, category)
    THEN [error |-> "Unknown category: " \o category,
          available_categories |-> DOMAIN reg.categories]
    ELSE LET ids == PresentIds(reg.categories[category], reg.templates)
         IN  [category |-> category,
              templates |-> [i \in 1..Len(ids) |->
                                [id |-> ids[i], name |-> reg.templates[ids[i]].name,
                                 file_extension |-> reg.templates[ids[i]].file_extension]],
              count |-> Len(ids)]

get_templates_by_style(reg, style_name) ==
    LET hits == {id \in DOMAIN reg.templates :
                     InList(style_name, reg.templates[id].style_compatibility)}
    IN  [style |-> style_name,
         compatible_templates |-> {[id |-> id, name |-> reg.templates[id].name,
                                    category |-> reg.templates[id].category] : id \in hits},
         count |-> Cardinality(hits)]

-----------------------------------------------------------------------------
(* AssetManager *)

initialize_asset_registry ==
    [fonts |-> <<>>, color_schemes |-> <<>>, templates |-> <<>>, bundles |-> <<>>]

\* str.upper() on one (ASCII) character
UpperChar(c) ==
    IF \E i \in 1..Len(LowerCase) : Ch(LowerCase, i) = c
    THEN Ch(UpperCase, CHOOSE i \in 1..Len(LowerCase) : Ch(LowerCase, i) = c)
    ELSE c

RECURSIVE StrUpper(_)
StrUpper(s) ==
    IF Len(s) = 0 THEN "" ELSE UpperChar(Ch(s, 1)) \o StrUpper(StrTail(s))

\* an asset of a style: its name, file name and path
Asset(name, directory, filename, type) ==
    [name |-> name, filename |-> filename, path |-> directory \o "/" \o filename,
     type |-> type]

\* _get_style_fonts: the table of the styles, the two default fonts otherwise
get_style_fonts(style_name) ==
    LET times == Asset("Times New Roman", "fonts", "times-new-roman.ttf", "serif")
        arial == Asset("Arial", "fonts", "arial.ttf", "sans-serif")
    IN  IF style_name \in {"ieee", "nature", "apa"} THEN <<times>>
        ELSE IF style_name = "modern" THEN <<arial>>
        ELSE <<times, arial>>

\* _get_style_color_schemes: the same two schemes for every style
get_style_color_schemes(style_name) ==
    << Asset("Academic", "color_schemes", "academic.json", "professional"),
       Asset("Modern Blue", "color_schemes", "modern_blue.json", "contemporary") >>

\* _get_style_templates: two file names made from the style name
get_style_templates(style_name) ==
    << Asset(StrUpper(style_name) \o " Article Template", "templates",
             style_name \o "_article.html", "article"),
       Asset(StrUpper(style_name) \o " CSS", "templates", style_name \o ".css",
             "stylesheet") >>

\* the three asset directories, as create_bundle sees them
Disk(fonts, schemes, templates) ==
    [fonts |-> fonts, color_schemes |-> schemes, templates |-> templates]

\* os.path.exists(path) for a path into one of the asset directories
PathExists(disk, path) ==
    \E d \in DOMAIN disk : \E f \in DOMAIN disk[d] : PathJoin(d, f) = path

\* "if os.path.exists(asset['path'])" over the assets of a kind, in order
OnDisk_Unchecked(assets, disk) == assets

OnDisk(assets, disk) == SelectSeq(assets, LAMBDA a : PathExists(disk, a.path))

\* bundle_zip.write(asset['path'], f"<kind>/{asset['filename']}") for each asset
ArchiveEntries_NoPrefix(kind, assets) ==
    [i \in 1..Len(assets) |->
        [arcname |-> assets[i].filename, source |-> assets[i].path]]

ArchiveEntries(kind, assets) ==
    [i \in 1..Len(assets) |->
        [arcname |-> kind \o "/" \o assets[i].filename, source |-> assets[i].path]]

\* _generate_bundle_id: the first 12 hex digits of the MD5 digest of
\* "<name>_<style>_<timestamp>", kept as the digested text (no collisions)
generate_bundle_id(bundle_name, style_name, now) ==
    "md5(" \o bundle_name \o "_" \o style_name \o "_" \o ToString(now) \o ")"

\* the manifest create_bundle has built when it leaves the three loops
bundle_manifest(bundle_config, disk, now) ==
    LET bundle_name == GetOr(bundle_config, "name", "default_bundle")
        style_name == GetOr(bundle_config, "style", "default")
    IN  [bundle_id |-> generate_bundle_id(bundle_name, style_name, now),
         bundle_name |-> bundle_name,
         style |-> style_name,
         assets |->
             [fonts |-> IF GetOr(bundle_config, "include_fonts", TRUE)
                        THEN OnDisk(get_style_fonts(style_name), disk) ELSE <<>>,
              color_schemes |->
                        IF GetOr(bundle_config, "include_color_schemes", TRUE)
                        THEN OnDisk(get_style_color_schemes(style_name), disk)
                        ELSE <<>>,
              templates |->
                        IF GetOr(bundle_config, "include_templates", TRUE)
                        THEN OnDisk(get_style_templates(style_name), disk) ELSE <<>>],
         metadata |-> GetOr(bundle_config, "metadata", <<>>)]

\* the entries create_bundle writes into the archive, in order
bundle_entries(manifest) ==
    ArchiveEntries("fonts", manifest.assets.fonts)
        \o ArchiveEntries("color_schemes", manifest.assets.color_schemes)
        \o ArchiveEntries("templates", manifest.assets.templates)
        \o << [arcname |-> "manifest.json", source |-> "manifest"] >>

\* the archive file after the "with zipfile.ZipFile(...)" block was left with
\* the first `written` entries in it; the block closes the handle on every exit
Archive(manifest, written) ==
    [entries |-> SubSeq(bundle_entries(manifest), 1, written),
     manifest |-> IF written = Len(bundle_entries(manifest))
                  THEN manifest ELSE None,
     closed |-> TRUE]

\* create_bundle: the registry and the bundle files it leaves, and its result;
\* size and checksum are functions of the archive file and are left out
create_bundle(reg, files, disk, bundle_config, now) ==
    LET manifest == bundle_manifest(bundle_config, disk, now)
        bundle_path == PathJoin("bundles", manifest.bundle_id \o ".zip")
    IN  [registry |->
             [reg EXCEPT !.bundles =
                 Put(@, manifest.bundle_id,
                     [bundle_name |-> manifest.bundle_name, style |-> manifest.style,
                      path |-> bundle_path, manifest |-> manifest])],
         files |-> Put(files, manifest.bundle_id \o ".zip",
                       Archive(manifest, Len(bundle_entries(manifest)))),
         result |->
             [success |-> TRUE,
              bundle_id |-> manifest.bundle_id,
              bundle_name |-> manifest.bundle_name,
              style |-> manifest.style,
              bundle_path |-> bundle_path,
              asset_count |->
                  [fonts |-> Len(manifest.assets.fonts),
                   color_schemes |-> Len(manifest.assets.color_schemes),
                   templates |-> Len(manifest.assets.templates)],
              download_url |-> "/api/bundles/" \o manifest.bundle_id \o "/download"]]

-----------------------------------------------------------------------------
(* The requests the model sends *)

SchemeCategories == {"modern", "pastel"}

\* a descriptor with some of its fields left out
Partial(full, required) == {Restrict(full, F) : F \in (SUBSET required) \ {required}}

\* the ten roles of a built-in scheme and one more
ElevenColors ==
    Colors10("#003366", "#0066CC", "#3399FF", "#FFFFFF", "#000000",
             "#333333", "#CCCCCC", "#FFFF99", "#CC0000", "#006600")
        \o << <<"link", "#00f">> >>

SchemeDescriptors ==
    {[name |-> n, category |-> c, colors |-> ValidColors] :
        n \in SchemeNames, c \in SchemeCategories}
    \cup {[name |-> "Test Blue", category |-> "modern", colors |-> m] : m \in ColorMaps}
    \cup {[name |-> "academic-blue", category |-> "modern", colors |-> TwoBadColors],
          [name |-> "Sky", category |-> "modern", colors |-> <<>>,
           compatibility |-> <<"ieee">>],
          [name |-> "Sky", category |-> "creative", colors |-> ElevenColors]}
    \cup Partial([name |-> "Test Blue", category |-> "modern", colors |-> OneBadColor],
                 {"name", "category", "colors"})

FontDescriptors ==
    {[name |-> n, family |-> "Custom", category |-> c] :
        n \in FontNames, c \in {"serif", "pastel"}}
    \cup {[name |-> "My Font", family |-> "Custom", category |-> "serif",
           formats |-> <<"otf", "ttf">>, compatibility |-> <<"ieee">>]}
    \cup Partial([name |-> "My Font", family |-> "Custom", category |-> "serif"],
                 {"name", "family", "category"})

CategoryInputs == {"modern", "serif", "html", "pastel"}

StyleInputs == {"ieee", "unknown_style"}

\* the font files that may be installed in fonts/ when the service starts
FontFileCandidates == {"times_new_roman.ttf", "my_font.ttf"}

-----------------------------------------------------------------------------
(* The state after the services of app.py are constructed *)

InitCatalogs(present) ==
    /\ scheme_registry = create_default_schemes.registry
    /\ scheme_files = create_default_schemes.files
    /\ font_registry = register_default_fonts
    /\ font_files = [f \in present |-> "font data"]
    /\ template_registry = create_default_templates.registry
    /\ template_files = create_default_templates.files
    /\ asset_registry = initialize_asset_registry
    /\ bundle_files = <<>>
    /\ okCreates = <<>>
    /\ descriptors = <<>>
    /\ fetched = <<>>

ThreadsIdle == <<>>

ProbeIdle == [stage |-> "none"]

Init ==
    /\ \E present \in SUBSET FontFileCandidates : InitCatalogs(present)
    /\ ret = Response("init", [name |-> ""], None, NoRoute)
    /\ nops = 0
    /\ threads = ThreadsIdle
    /\ probe = ProbeIdle

-----------------------------------------------------------------------------
(* The requests, served one at a time *)

Served == nops < MaxOps /\ nops' = nops + 1 /\ UNCHANGED <<threads, probe>>

BundlesKept == UNCHANGED <<asset_registry, bundle_files>>

SchemesOnly ==
    BundlesKept /\ UNCHANGED <<font_registry, font_files, template_registry, template_files>>

FontsOnly ==
    BundlesKept /\ UNCHANGED <<scheme_registry, scheme_files, template_registry, template_files>>

TemplatesOnly ==
    BundlesKept /\ UNCHANGED <<scheme_registry, scheme_files, font_registry, font_files>>

\* POST /api/color-schemes
HandleCreateScheme(scheme_data) ==
    /\ LET out == create_scheme(scheme_registry, scheme_files, scheme_data)
       IN  /\ scheme_registry' = out.registry
           /\ scheme_files' = out.files
           /\ ret' = Response("create_scheme", scheme_data, out.result, "200")
           /\ okCreates' = NoteCreate(okCreates, "schemes", out.result,
                                      generate_scheme_id(GetOr(scheme_data, "name", "")))
           /\ descriptors' = NoteDescriptor(descriptors, out.result, scheme_data)
           /\ fetched' = fetched
    /\ SchemesOnly

CreateScheme(scheme_data) == Served /\ HandleCreateScheme(scheme_data)

\* GET /api/color-schemes/<scheme_name>
GetScheme(scheme_name) ==
    /\ Served
    /\ LET out == get_scheme(scheme_registry, scheme_name)
       IN  /\ scheme_registry' = out.registry
           /\ ret' = Response("get_scheme", [name |-> scheme_name], out.result,
                              RouteStatus(out.result))
           /\ fetched' = NoteFetch(fetched, "schemes", out.result,
                                   generate_scheme_id(scheme_name))
    /\ UNCHANGED <<scheme_files, okCreates, descriptors>>
    /\ SchemesOnly

\* GET /api/color-schemes
ListSchemes ==
    /\ Served
    /\ ret' = Response("get_available_schemes", [name |-> ""],
                       get_available_schemes(scheme_registry), "200")
    /\ UNCHANGED <<scheme_registry, scheme_files, okCreates, descriptors, fetched>>
    /\ SchemesOnly

SchemesByCategory(category) ==
    /\ Served
    /\ ret' = Response("get_schemes_by_category", [name |-> category],
                       get_schemes_by_category(scheme_registry, category), NoRoute)
    /\ UNCHANGED <<scheme_registry, scheme_files, okCreates, descriptors, fetched>>
    /\ SchemesOnly

SchemesByCompatibility(style_name) ==
    /\ Served
    /\ ret' = Response("get_schemes_by_compatibility", [name |-> style_name],
                       get_schemes_by_compatibility(scheme_registry, style_name), NoRoute)
    /\ UNCHANGED <<scheme_registry, scheme_files, okCreates, descriptors, fetched>>
    /\ SchemesOnly

RegisterCustomFont(font_data) ==
    /\ Served
    /\ LET out == register_custom_font(font_registry, font_data)
       IN  /\ font_registry' = out.registry
           /\ ret' = Response("register_custom_font", font_data, out.result, NoRoute)
           /\ okCreates' = NoteCreate(okCreates, "fonts", out.result,
                                      generate_font_id(GetOr(font_data, "name", "")))
           /\ descriptors' = descriptors
           /\ fetched' = fetched
    /\ UNCHANGED font_files
    /\ FontsOnly

\* GET /api/fonts/<font_name>
GetFontDetails(font_name) ==
    /\ Served
    /\ LET out == get_font_details(font_registry, font_name)
       IN  /\ font_registry' = out.registry
           /\ ret' = Response("get_font_details", [name |-> font_name], out.result,
                              RouteStatus(out.result))
    /\ UNCHANGED <<font_files, okCreates, descriptors, fetched>>
    /\ FontsOnly

\* GET /api/fonts/<font_name>/download
GetFontPath(font_name) ==
    /\ Served
    /\ LET out == get_font_path(font_registry, font_files, font_name)
       IN  /\ font_registry' = out.registry
           /\ font_files' = out.files
           /\ ret' = Response("get_font_path", [name |-> font_name], out.result,
                              DownloadStatus(out.result, "fonts", out.files))
    /\ UNCHANGED <<okCreates, descriptors, fetched>>
    /\ FontsOnly

\* GET /api/fonts
ListFonts ==
    /\ Served
    /\ ret' = Response("get_available_fonts", [name |-> ""],
                       get_available_fonts(font_registry), "200")
    /\ UNCHANGED <<font_registry, font_files, okCreates, descriptors, fetched>>
    /\ FontsOnly

FontsByCategory(category) ==
    /\ Served
    /\ ret' = Response("get_fonts_by_category", [name |-> category],
                       get_fonts_by_category(font_registry, category), NoRoute)
    /\ UNCHANGED <<font_registry, font_files, okCreates, descriptors, fetched>>
    /\ FontsOnly

FontsByCompatibility(style_name) ==
    /\ Served
    /\ ret' = Response("get_fonts_by_compatibility", [name |-> style_name],
                       get_fonts_by_compatibility(font_registry, style_name), NoRoute)
    /\ UNCHANGED <<font_registry, font_files, okCreates, descriptors, fetched>>
    /\ FontsOnly

\* GET /api/templates/<template_name>
GetTemplate(template_name) ==
    /\ Served
    /\ LET out == get_template(template_registry, template_name)
       IN  /\ template_registry' = out.registry
           /\ ret' = Response("get_template", [name |-> template_name], out.result,
                              RouteStatus(out.result))
           /\ fetched' = NoteFetch(fetched, "templates", out.result,
                                   generate_template_id(template_name))
    /\ UNCHANGED <<template_files, okCreates, descriptors>>
    /\ TemplatesOnly

\* GET /api/templates/<template_name>/download
GetTemplatePath(template_name) ==
    /\ Served
    /\ LET out == get_template_path(template_registry, template_files, template_name)
       IN  /\ template_files' = out.files
           /\ ret' = Response("get_template_path", [name |-> template_name], out.result,
                              DownloadStatus(out.result, "templates", out.files))
    /\ UNCHANGED <<template_registry, okCreates, descriptors, fetched>>
    /\ TemplatesOnly

\* GET /api/templates
ListTemplates ==
    /\ Served
    /\ ret' = Response("get_available_templates", [name |-> ""],
                       get_available_templates(template_registry), "200")
    /\ UNCHANGED <<template_registry, template_files, okCreates, descriptors, fetched>>
    /\ TemplatesOnly

TemplatesByCategory(category) ==
    /\ Served
    /\ ret' = Response("get_templates_by_category", [name |-> category],
                       get_templates_by_category(template_registry, category), NoRoute)
    /\ UNCHANGED <<template_registry, template_files, okCreates, descriptors, fetched>>
    /\ TemplatesOnly

TemplatesByStyle(style_name) ==
    /\ Served
    /\ ret' = Response("get_templates_by_style", [name |-> style_name],
                       get_templates_by_style(template_registry, style_name), NoRoute)
    /\ UNCHANGED <<template_registry, template_files, okCreates, descriptors, fetched>>
    /\ TemplatesOnly

Next ==
    \/ \E d \in SchemeDescriptors : CreateScheme(d)
    \/ \E n \in SchemeNames : GetScheme(n)
    \/ ListSchemes
    \/ \E c \in CategoryInputs : SchemesByCategory(c)
    \/ \E t \in StyleInputs : SchemesByCompatibility(t)
    \/ \E d \in FontDescriptors : RegisterCustomFont(d)
    \/ \E n \in FontNames : GetFontDetails(n)
    \/ \E n \in FontNames : GetFontPath(n)
    \/ ListFonts
    \/ \E c \in CategoryInputs : FontsByCategory(c)
    \/ \E t \in StyleInputs : FontsByCompatibility(t)
    \/ \E n \in TemplateNames : GetTemplate(n)
    \/ \E n \in TemplateNames : GetTemplatePath(n)
    \/ ListTemplates
    \/ \E c \in CategoryInputs : TemplatesByCategory(c)
    \/ \E t \in StyleInputs : TemplatesByStyle(t)

Spec == Init /\ [][Next]_vars

-----------------------------------------------------------------------------
(* Properties of the catalogs, requests served one at a time *)

BuiltinSchemeIds == DOMAIN create_default_schemes.registry.schemes

BuiltinFontIds == DOMAIN register_default_fonts.fonts

\* a request was served in this step, by the handler op
Step(op) == nops' = nops + 1 /\ ret'.op = op

\* how often id occurs in an index list
Occurrences(list, id) == Cardinality({i \in 1..Len(list) : list[i] = id})

\* C1 (conflict law, sequential): for every derived id at most one create_scheme
\* call and at most one register_custom_font call has returned success=true (so
\* once a create of an id has succeeded every later one fails), and no create of
\* an id of a built-in record has ever succeeded.
C1_ConflictLaw ==
    /\ \A k \in DOMAIN okCreates : okCreates[k] <= 1
    /\ \A id \in BuiltinSchemeIds : CountOk(okCreates, "schemes", id) = 0
    /\ \A id \in BuiltinFontIds : CountOk(okCreates, "fonts", id) = 0
    /\ (ret.op \in {"create_scheme", "register_custom_font"} /\ ret.result.success)
           => CountOk(okCreates, IF ret.op = "create_scheme" THEN "schemes" ELSE "fonts",
                      Normalize(ret.arg.name)) = 1

\* a second create, under another spelling of a name whose create succeeded, was
\* answered "already exists"
C1_Witness ==
    /\ ret.op = "create_scheme"
    /\ ret.result = [success |-> FALSE, error |-> "Color scheme test-blue already exists"]
    /\ CountOk(okCreates, "schemes", "test_blue") = 1
    /\ scheme_registry.schemes["test_blue"].name = "Test Blue"

\* the registry and the created id of the create that ret holds
CreatedIn(op) ==
    IF op = "create_scheme"
    THEN [records |-> scheme_registry.schemes, categories |-> scheme_registry.categories,
          id |-> ret.result.scheme_id]
    ELSE [records |-> font_registry.fonts, categories |-> font_registry.categories,
          id |-> ret.result.font_id]

\* C2 (registry invariant): right after a successful create_scheme or
\* register_custom_font the derived id is a key of the primary map, occurs exactly
\* once in the index list of the descriptor's category and in no other list.
C2_CreatedOnceInIndex ==
    (ret.op \in {"create_scheme", "register_custom_font"} /\ ret.result.success)
        => LET c == CreatedIn(ret.op) IN
           /\ c.id = Normalize(ret.arg.name)
           /\ c.id \in DOMAIN c.records
           /\ ret.arg.category \in DOMAIN c.categories
           /\ Occurrences(c.categories[ret.arg.category], c.id) = 1
           /\ \A other \in DOMAIN c.categories \ {ret.arg.category} :
                  Occurrences(c.categories[other], c.id) = 0

\* a font was registered under a category that was no key of the index before
C2_Witness ==
    /\ ret.op = "register_custom_font"
    /\ ret.result.success
    /\ ret.arg.category = "pastel"
    /\ font_registry.categories["pastel"] = <<"my_font">>

IndexConsistent(records, categories) ==
    \A c \in DOMAIN categories : \A i \in 1..Len(categories[c]) :
        /\ categories[c][i] \in DOMAIN records
        /\ records[categories[c][i]].category = c

\* C3 (no orphaned or misfiled index entries): in every reachable state, in each of
\* the three catalogs, every id of every category index list is a key of the
\* primary map and the record under it has that list's category.
C3_IndexConsistent ==
    /\ IndexConsistent(scheme_registry.schemes, scheme_registry.categories)
    /\ IndexConsistent(font_registry.fonts, font_registry.categories)
    /\ IndexConsistent(template_registry.templates, template_registry.categories)

\* a created scheme is listed by get_schemes_by_category beside a built-in one
C3_Witness ==
    /\ ret.op = "get_schemes_by_category"
    /\ ret.arg.name = "modern"
    /\ ret.result.count = 2
    /\ scheme_registry.categories["modern"] = <<"modern_grayscale", "test_blue">>

\* the registry of a get that hit id, as the claim expects it after the call
CountedOnce(reg, field, id, counter) ==
    [reg EXCEPT ![field] =
        [k \in DOMAIN reg[field] |->
            IF k = id
            THEN [f \in DOMAIN reg[field][k] |->
                     IF f = counter THEN reg[field][k][f] + 1 ELSE reg[field][k][f]]
            ELSE reg[field][k]]]

\* C7 (frame of a get that hits): a get_scheme / get_template on a name whose id is
\* registered adds exactly 1 to that record's stored usage_count and changes
\* nothing else: no other record or counter, no index list, no file; the URLs it
\* returns are in the returned copy only.
C7_GetCountsOnce ==
    [][ /\ (Step("get_scheme") /\ Normalize(ret'.arg.name) \in DOMAIN scheme_registry.schemes)
            => /\ scheme_registry' = CountedOnce(scheme_registry, "schemes",
                                                 Normalize(ret'.arg.name), "usage_count")
               /\ "metadata" \in DOMAIN ret'.result
               /\ \A id \in DOMAIN scheme_registry'.schemes :
                      "metadata" \notin DOMAIN scheme_registry'.schemes[id]
               /\ UNCHANGED <<scheme_files, font_registry, font_files,
                              template_registry, template_files, okCreates, descriptors>>
        /\ (Step("get_template")
              /\ Normalize(ret'.arg.name) \in DOMAIN template_registry.templates)
            => /\ template_registry' = CountedOnce(template_registry, "templates",
                                                   Normalize(ret'.arg.name), "usage_count")
               /\ "metadata" \in DOMAIN ret'.result
               /\ \A id \in DOMAIN template_registry'.templates :
                      "metadata" \notin DOMAIN template_registry'.templates[id]
               /\ UNCHANGED <<scheme_registry, scheme_files, font_registry, font_files,
                              template_files, okCreates, descriptors>> ]_vars

\* the second get of a scheme, under another spelling, found and counted it
C7_Witness ==
    /\ ret.op = "get_scheme"
    /\ ret.arg.name = "academic-blue"
    /\ ret.status = "200"
    /\ ret.result.usage_count = 1
    /\ scheme_registry.schemes["academic_blue"].usage_count = 2

\* C8 as stated (a detail fetch counts as a download): get_font_details on a
\* registered font adds exactly 1 to its stored download_count.
C8_DetailsCountDownload ==
    [][ (Step("get_font_details") /\ Normalize(ret'.arg.name) \in DOMAIN font_registry.fonts)
            => font_registry'.fonts[Normalize(ret'.arg.name)].download_count
                   = font_registry.fonts[Normalize(ret'.arg.name)].download_count + 1 ]_vars

\* C8 amended: get_font_details on a registered font returns the record and leaves
\* its stored download_count, and the whole font registry, unchanged; the counter
\* grows, by exactly 1, only in a get_font_path that finds a file of the font in
\* one of its declared formats.
C8_DetailsLeaveCount ==
    [][ /\ (Step("get_font_details")
              /\ Normalize(ret'.arg.name) \in DOMAIN font_registry.fonts)
            => /\ font_registry' = font_registry
               /\ ret'.status = "200"
               /\ ret'.result.download_count
                      = font_registry.fonts[Normalize(ret'.arg.name)].download_count
        /\ font_registry' # font_registry /\ DOMAIN font_registry'.fonts = DOMAIN font_registry.fonts
            => /\ Step("get_font_path")
               /\ LET formats == font_registry.fonts[Normalize(ret'.arg.name)].formats
                  IN  \E i \in 1..Len(formats) :
                        /\ Stem(ret'.arg.name) \o "." \o formats[i] \in DOMAIN font_files
                        /\ ret'.result.path
                               = "fonts/" \o Stem(ret'.arg.name) \o "." \o formats[i]
               /\ font_registry' = CountedOnce(font_registry, "fonts",
                                               Normalize(ret'.arg.name), "download_count") ]_vars

\* after a download that counted, the detail fetch reports the count and keeps it
C8_Witness ==
    /\ ret.op = "get_font_details"
    /\ ret.status = "200"
    /\ ret.result.download_count = 1
    /\ font_registry.fonts[Normalize(ret.arg.name)].download_count = 1

\* C9 (a get that misses): get_scheme, get_template, get_font_details and
\* get_font_path on a name whose id is not registered return None, which the route
\* answers with 404, and leave every registry, counter, index and file unchanged.
C9_MissChangesNothing ==
    [][ \A op \in {"get_scheme", "get_template", "get_font_details", "get_font_path"} :
          (Step(op) /\ Normalize(ret'.arg.name) \notin
                 (CASE op = "get_scheme" -> DOMAIN scheme_registry.schemes
                    [] op = "get_template" -> DOMAIN template_registry.templates
                    [] OTHER -> DOMAIN font_registry.fonts))
            => /\ ret'.result = None
               /\ ret'.status = "404"
               /\ UNCHANGED <<scheme_registry, scheme_files, font_registry, font_files,
                              template_registry, template_files, okCreates, descriptors>> ]_vars

\* a download of a font that is not registered was answered 404, no placeholder
C9_Witness ==
    /\ ret.op = "get_font_path"
    /\ ret.arg.name = "My Font"
    /\ ret.result = None
    /\ ret.status = "404"
    /\ "my_font_placeholder.txt" \notin DOMAIN font_files
    /\ nops = 2

-----------------------------------------------------------------------------
(* Id normalization on enumerated names *)

NameAlphabet == {"t", "T", " ", "-", "_"}

\* the strings over NameAlphabet of length n
RECURSIVE NamesOfLen(_)
NamesOfLen(n) ==
    IF n = 0 THEN {""} ELSE {s \o c : s \in NamesOfLen(n - 1), c \in NameAlphabet}

SpelledNames == {"Times New Roman", "times-new-roman", "TIMES NEW ROMAN", "times_new_roman"}

\* the pairs of names the normalization is applied to
NamePairs ==
    UNION {NamesOfLen(n) \X NamesOfLen(n) : n \in 0..MaxNameLen}
    \cup (SpelledNames \X SpelledNames)

InitNames ==
    /\ InitCatalogs({})
    /\ ret = Response("init", [name |-> ""], None, NoRoute)
    /\ nops = 0
    /\ threads = ThreadsIdle
    /\ \E pair \in NamePairs : probe = [stage |-> "names", a |-> pair[1], b |-> pair[2]]

\* the three id generators applied to both names, and once more to an id
GenerateIds ==
    /\ probe.stage = "names"
    /\ probe' = [stage |-> "ids", a |-> probe.a, b |-> probe.b,
                 scheme |-> <<generate_scheme_id(probe.a), generate_scheme_id(probe.b)>>,
                 font |-> <<generate_font_id(probe.a), generate_font_id(probe.b)>>,
                 template |-> <<generate_template_id(probe.a),
                                generate_template_id(probe.b)>>,
                 again |-> <<generate_scheme_id(generate_scheme_id(probe.a)),
                             generate_font_id(generate_font_id(probe.a)),
                             generate_template_id(generate_template_id(probe.a))>>]
    /\ UNCHANGED <<scheme_registry, scheme_files, font_registry, font_files,
                   template_registry, template_files, asset_registry, bundle_files,
                   ret, okCreates, descriptors, fetched, nops, threads>>

NextNames == GenerateIds

SpecNames == InitNames /\ [][NextNames]_vars

Separators == {" ", "-", "_"}

\* two characters that are the same letter in either case
SameLetter(c, d) ==
    \/ c = d
    \/ \E k \in 1..Len(UpperCase) : {c, d} = {Ch(UpperCase, k), Ch(LowerCase, k)}

\* names that differ only in letter case and in which separator stands where
SameSpelling(a, b) ==
    /\ Len(a) = Len(b)
    /\ \A i \in 1..Len(a) :
           \/ Ch(a, i) \in Separators /\ Ch(b, i) \in Separators
           \/ SameLetter(Ch(a, i), Ch(b, i))

\* C6 (id normalization): in each of the three catalogs, two names that differ only
\* in letter case and in using a space, a hyphen or an underscore at the same
\* positions get the same id, and the id of an id is that id.
C6_NormalizationInsensitive ==
    probe.stage = "ids" =>
        /\ SameSpelling(probe.a, probe.b) =>
               /\ probe.scheme[1] = probe.scheme[2]
               /\ probe.font[1] = probe.font[2]
               /\ probe.template[1] = probe.template[2]
        /\ probe.again = <<probe.scheme[1], probe.font[1], probe.template[1]>>

\* the spec's example: two spellings of Times New Roman got the id times_new_roman
C6_Witness ==
    /\ probe.stage = "ids"
    /\ probe.a = "Times New Roman"
    /\ probe.b = "times-new-roman"
    /\ probe.scheme = <<"times_new_roman", "times_new_roman">>
    /\ probe.font = probe.scheme
    /\ probe.template = probe.scheme

-----------------------------------------------------------------------------
(* create_scheme on enumerated color mappings *)

\* bound on the number of entries of an enumerated colors mapping
MaxColors == 2

WellFormedSamples == {"#0af", "#12ABef", "rgb(1, 2,3)", "rgba(0,0,0,.5)"}

MalformedSamples == {"blue", "#12345", "rgb(1,2)", "rgba(1,2,3)", ""}

SampleRoles == {"primary", "accent", "text"}

\* the mappings of n entries with distinct roles
RECURSIVE ColorMapsOfLen(_)
ColorMapsOfLen(n) ==
    IF n = 0 THEN {<<>>}
    ELSE {Append(m, <<r, v>>) :
            m \in ColorMapsOfLen(n - 1),
            r \in SampleRoles, v \in WellFormedSamples \cup MalformedSamples}

DistinctRoles(m) == \A i, j \in 1..Len(m) : m[i][1] = m[j][1] => i = j

SampleColorMaps ==
    {m \in UNION {ColorMapsOfLen(n) : n \in 0..MaxColors} : DistinctRoles(m)}

InitColors ==
    /\ InitCatalogs({})
    /\ ret = Response("init", [name |-> ""], None, NoRoute)
    /\ nops = 0
    /\ threads = ThreadsIdle
    /\ \E m \in SampleColorMaps :
           probe = [stage |-> "descriptor",
                    scheme_data |-> [name |-> "Test Blue", category |-> "modern",
                                     colors |-> m]]

\* POST /api/color-schemes with the enumerated descriptor
SubmitDescriptor ==
    /\ probe.stage = "descriptor"
    /\ HandleCreateScheme(probe.scheme_data)
    /\ probe' = [probe EXCEPT !.stage = "submitted"]
    /\ nops' = nops + 1
    /\ UNCHANGED threads

NextColors == SubmitDescriptor

SpecColors == InitColors /\ [][NextColors]_vars

\* the roles of a mapping whose value is one of the malformed samples, in order
MalformedRoles(m) ==
    LET bad == SelectSeq(m, LAMBDA item : item[2] \in MalformedSamples)
    IN  [i \in 1..Len(bad) |-> bad[i][1]]

\* the role an error message names
NamesRole(message, role, value) ==
    message = "Invalid color format for " \o role \o ": " \o value

\* C10 (validation completeness of create_scheme): for a descriptor with all
\* mandatory fields and a fresh id whose colors mapping holds k values of none of
\* the hex, rgb(...) or rgba(...) forms, k >= 1 makes the call fail with exactly k
\* errors, one per malformed role in the mapping's order, and k = 0 lets it pass.
C10_AllColorErrors ==
    probe.stage = "submitted" =>
        LET m == probe.scheme_data.colors
            roles == MalformedRoles(m)
        IN  IF roles = <<>>
            THEN ret.result.success
            ELSE /\ ret.result.success = FALSE
                 /\ ret.result.error = "Invalid color format"
                 /\ Len(ret.result.details) = Len(roles)
                 /\ \A i \in 1..Len(roles) :
                        \E j \in 1..Len(m) :
                            /\ m[j][1] = roles[i]
                            /\ NamesRole(ret.result.details[i], m[j][1], m[j][2])
                 /\ "test_blue" \notin DOMAIN scheme_registry.schemes

\* two malformed values gave exactly two errors, in the order of the mapping
C10_Witness ==
    /\ probe.stage = "submitted"
    /\ MalformedRoles(probe.scheme_data.colors) = <<"text", "primary">>
    /\ Len(ret.result.details) = 2
    /\ ret.result.success = FALSE

-----------------------------------------------------------------------------
(* Concurrent requests: app.run serves each request on its own thread, and the   *)
(* services are module-level objects shared by all of them, with no lock.  A     *)
(* thread may be preempted between any two accesses to the shared registries.    *)

\* number of requests in flight
NumThreads == 2

Tids == 1..NumThreads

Request(op, arg) == [op |-> op, arg |-> arg]

ConcurrentRequests ==
    {Request("create_scheme", d) :
        d \in {[name |-> "Test Blue", category |-> "modern", colors |-> ValidColors],
               [name |-> "test-blue", category |-> "pastel", colors |-> ValidColors],
               [name |-> "Test Blue", category |-> "modern", colors |-> OneBadColor]}}
    \cup {Request("register_custom_font", d) :
        d \in {[name |-> "My Font", family |-> "Custom", category |-> "serif"],
               [name |-> "my-font", family |-> "Custom", category |-> "pastel"]}}
    \cup {Request("get_scheme", [name |-> n]) : n \in {"Academic Blue", "academic-blue", "Sky"}}
    \cup {Request("get_template", [name |-> "IEEE Article HTML"]),
          Request("get_font_path", [name |-> "Times New Roman"]),
          Request("get_font_path", [name |-> "Georgia"])}

CreateOps == {"create_scheme", "register_custom_font"}

GetOps == {"get_scheme", "get_template", "get_font_path"}

ThreadStart(request) == [pc |-> "start", req |-> request, result |-> None]

InitConcurrent ==
    /\ InitCatalogs({"times_new_roman.ttf"})
    /\ ret = Response("init", [name |-> ""], None, NoRoute)
    /\ nops = 0
    /\ probe = ProbeIdle
    /\ threads \in [Tids -> {ThreadStart(r) : r \in ConcurrentRequests}]

SequentialOnly == BundlesKept /\ UNCHANGED <<ret, nops, probe>>

\* the thread returns result
Return(t, result) == [threads EXCEPT ![t] = [pc |-> "done", req |-> @.req, result |-> result]]

\* the thread moves on to pc with its locals
Goto(t, pc, locals) ==
    [threads EXCEPT ![t] = [pc |-> pc, req |-> @.req, result |-> None, locals |-> locals]]

\* create_scheme up to its last read of the registry: the required fields, the
\* existence check, then (on the thread's own data) the color validation
CsCheck(t) ==
    /\ threads[t].pc = "start"
    /\ threads[t].req.op = "create_scheme"
    /\ LET scheme_data == threads[t].req.arg
           \* the call on the registry as it is now decides the three early returns
           early == create_scheme(scheme_registry, scheme_files, scheme_data).result
       IN  threads' = IF early.success
                      THEN Goto(t, "cs_save",
                                [id |-> generate_scheme_id(scheme_data.name),
                                 info |-> [id |-> generate_scheme_id(scheme_data.name),
                                           name |-> scheme_data.name,
                                           category |-> scheme_data.category,
                                           colors |-> scheme_data.colors,
                                           compatibility |->
                                               GetOr(scheme_data, "compatibility", <<>>),
                                           status |-> "active", usage_count |-> 0]])
                      ELSE Return(t, early)
    /\ UNCHANGED <<scheme_registry, scheme_files, font_registry, font_files,
                   template_registry, template_files, okCreates, descriptors, fetched>>
    /\ SequentialOnly

\* "self._save_scheme_to_file(scheme_info)"
CsSave(t) ==
    /\ threads[t].pc = "cs_save"
    /\ scheme_files' = save_scheme_to_file(scheme_files, threads[t].locals.info)
    /\ threads' = Goto(t, "cs_insert", threads[t].locals)
    /\ UNCHANGED <<scheme_registry, font_registry, font_files,
                   template_registry, template_files, okCreates, descriptors, fetched>>
    /\ SequentialOnly

\* "self.scheme_registry['schemes'][scheme_id] = scheme_info"
CsInsert(t) ==
    /\ threads[t].pc = "cs_insert"
    /\ scheme_registry' = [scheme_registry EXCEPT !.schemes =
                               Put(@, threads[t].locals.id, threads[t].locals.info)]
    /\ threads' = Goto(t, "cs_index", threads[t].locals)
    /\ UNCHANGED <<scheme_files, font_registry, font_files,
                   template_registry, template_files, okCreates, descriptors, fetched>>
    /\ SequentialOnly

\* "if category in self.scheme_registry['categories']"
CsIndex(t) ==
    /\ threads[t].pc = "cs_index"
    /\ threads' = Goto(t, "cs_append",
                       [id |-> threads[t].locals.id, info |-> threads[t].locals.info,
                        has_category |-> Has(scheme_registry.categories,
                                             threads[t].locals.info.category)])
    /\ UNCHANGED <<scheme_registry, scheme_files, font_registry, font_files,
                   template_registry, template_files, okCreates, descriptors, fetched>>
    /\ SequentialOnly

\* the branch taken: ".append(scheme_id)" or "= [scheme_id]"
AppendOrSet(categories, category, id, has_category) ==
    IF has_category
    THEN [categories EXCEPT ![category] = Append1(@, id)]
    ELSE Put(categories, category, <<id>>)

CsAppend(t) ==
    /\ threads[t].pc = "cs_append"
    /\ scheme_registry' = [scheme_registry EXCEPT !.categories =
                               AppendOrSet(@, threads[t].locals.info.category,
                                           threads[t].locals.id,
                                           threads[t].locals.has_category)]
    /\ threads' = Goto(t, "cs_meta", threads[t].locals)
    /\ UNCHANGED <<scheme_files, font_registry, font_files,
                   template_registry, template_files, okCreates, descriptors, fetched>>
    /\ SequentialOnly

\* "metadata['total_schemes'] = len(...)" and the return of success
CsMeta(t) ==
    /\ threads[t].pc = "cs_meta"
    /\ scheme_registry' = [scheme_registry EXCEPT !.metadata.total_schemes =
                               Cardinality(DOMAIN scheme_registry.schemes)]
    /\ threads' = Return(t, [success |-> TRUE, scheme_id |-> threads[t].locals.id])
    /\ okCreates' = NoteCreate(okCreates, "schemes", [success |-> TRUE],
                               threads[t].locals.id)
    /\ descriptors' = NoteDescriptor(descriptors,
                                     [success |-> TRUE, scheme_id |-> threads[t].locals.id],
                                     threads[t].req.arg)
    /\ UNCHANGED <<scheme_files, font_registry, font_files,
                   template_registry, template_files, fetched>>
    /\ SequentialOnly

\* register_custom_font up to its last read of the registry
RfCheck(t) ==
    /\ threads[t].pc = "start"
    /\ threads[t].req.op = "register_custom_font"
    /\ LET font_data == threads[t].req.arg
           early == register_custom_font(font_registry, font_data).result
       IN  threads' = IF early.success
                      THEN Goto(t, "rf_insert",
                                [id |-> generate_font_id(font_data.name),
                                 info |-> [id |-> generate_font_id(font_data.name),
                                           name |-> font_data.name,
                                           family |-> font_data.family,
                                           category |-> font_data.category,
                                           formats |-> GetOr(font_data, "formats", <<"ttf">>),
                                           compatibility |->
                                               GetOr(font_data, "compatibility", <<>>),
                                           status |-> "available", download_count |-> 0]])
                      ELSE Return(t, early)
    /\ UNCHANGED <<scheme_registry, scheme_files, font_registry, font_files,
                   template_registry, template_files, okCreates, descriptors, fetched>>
    /\ SequentialOnly

\* "self.font_registry['fonts'][font_id] = font_info"
RfInsert(t) ==
    /\ threads[t].pc = "rf_insert"
    /\ font_registry' = [font_registry EXCEPT !.fonts =
                             Put(@, threads[t].locals.id, threads[t].locals.info)]
    /\ threads' = Goto(t, "rf_index", threads[t].locals)
    /\ UNCHANGED <<scheme_registry, scheme_files, font_files,
                   template_registry, template_files, okCreates, descriptors, fetched>>
    /\ SequentialOnly

\* "if category in self.font_registry['categories']"
RfIndex(t) ==
    /\ threads[t].pc = "rf_index"
    /\ threads' = Goto(t, "rf_append",
                       [id |-> threads[t].locals.id, info |-> threads[t].locals.info,
                        has_category |-> Has(font_registry.categories,
                                             threads[t].locals.info.category)])
    /\ UNCHANGED <<scheme_registry, scheme_files, font_registry, font_files,
                   template_registry, template_files, okCreates, descriptors, fetched>>
    /\ SequentialOnly

RfAppend(t) ==
    /\ threads[t].pc = "rf_append"
    /\ font_registry' = [font_registry EXCEPT !.categories =
                             AppendOrSet(@, threads[t].locals.info.category,
                                         threads[t].locals.id,
                                         threads[t].locals.has_category)]
    /\ threads' = Goto(t, "rf_meta", threads[t].locals)
    /\ UNCHANGED <<scheme_registry, scheme_files, font_files,
                   template_registry, template_files, okCreates, descriptors, fetched>>
    /\ SequentialOnly

RfMeta(t) ==
    /\ threads[t].pc = "rf_meta"
    /\ font_registry' = [font_registry EXCEPT !.metadata.total_fonts =
                             Cardinality(DOMAIN font_registry.fonts)]
    /\ threads' = Return(t, [success |-> TRUE, font_id |-> threads[t].locals.id])
    /\ okCreates' = NoteCreate(okCreates, "fonts", [success |-> TRUE],
                               threads[t].locals.id)
    /\ descriptors' = descriptors
    /\ fetched' = fetched
    /\ UNCHANGED <<scheme_registry, scheme_files, font_files,
                   template_registry, template_files>>
    /\ SequentialOnly

\* the records and the counter a get works on
RecordsOf(op) ==
    CASE op = "get_scheme" -> scheme_registry.schemes
      [] op = "get_template" -> template_registry.templates
      [] op = "get_font_path" -> font_registry.fonts

CounterOf(op) == IF op = "get_font_path" THEN "download_count" ELSE "usage_count"

\* the handler of a get, run on the state as it is now
GetNow(op, name) ==
    CASE op = "get_scheme" ->
             [counted |-> get_scheme(scheme_registry, name).result # None,
              result |-> get_scheme(scheme_registry, name).result,
              files |-> font_files]
      [] op = "get_template" ->
             [counted |-> get_template(template_registry, name).result # None,
              result |-> get_template(template_registry, name).result,
              files |-> font_files]
      [] op = "get_font_path" ->
             [counted |-> get_font_path(font_registry, font_files, name).registry
                              # font_registry,
              result |-> get_font_path(font_registry, font_files, name).result,
              files |-> get_font_path(font_registry, font_files, name).files]

\* a get up to the copy of the record (get_scheme, get_template) or the test of the
\* font file (get_font_path); a miss, and a font without a file, return here
GetLookup(t) ==
    /\ threads[t].pc = "start"
    /\ threads[t].req.op \in GetOps
    /\ LET now == GetNow(threads[t].req.op, threads[t].req.arg.name)
       IN  /\ threads' = IF now.counted
                         THEN Goto(t, "get_load",
                                   [id |-> NormalizeId(threads[t].req.arg.name),
                                    reply |-> now.result])
                         ELSE Return(t, now.result)
           /\ font_files' = now.files
    /\ UNCHANGED <<scheme_registry, scheme_files, font_registry,
                   template_registry, template_files, okCreates, descriptors, fetched>>
    /\ SequentialOnly

\* "... ['usage_count'] += 1", the read
GetLoad(t) ==
    /\ threads[t].pc = "get_load"
    /\ threads' = Goto(t, "get_store",
                       [id |-> threads[t].locals.id, reply |-> threads[t].locals.reply,
                        loaded |-> RecordsOf(threads[t].req.op)[threads[t].locals.id]
                                       [CounterOf(threads[t].req.op)]])
    /\ UNCHANGED <<scheme_registry, scheme_files, font_registry, font_files,
                   template_registry, template_files, okCreates, descriptors, fetched>>
    /\ SequentialOnly

\* the records with the counter of id set to value
StoreCount(records, id, counter, value) ==
    [records EXCEPT ![id] = [@ EXCEPT ![counter] = value]]

\* "... ['usage_count'] += 1", the write, and the return
GetStore(t) ==
    /\ threads[t].pc = "get_store"
    /\ LET op == threads[t].req.op
           id == threads[t].locals.id
           value == threads[t].locals.loaded + 1
       IN  /\ scheme_registry' =
                  IF op = "get_scheme"
                  THEN [scheme_registry EXCEPT !.schemes =
                            StoreCount(@, id, "usage_count", value)]
                  ELSE scheme_registry
           /\ template_registry' =
                  IF op = "get_template"
                  THEN [template_registry EXCEPT !.templates =
                            StoreCount(@, id, "usage_count", value)]
                  ELSE template_registry
           /\ font_registry' =
                  IF op = "get_font_path"
                  THEN [font_registry EXCEPT !.fonts =
                            StoreCount(@, id, "download_count", value)]
                  ELSE font_registry
    /\ threads' = Return(t, threads[t].locals.reply)
    /\ fetched' = IF threads[t].req.op = "get_scheme"
                  THEN NoteFetch(fetched, "schemes", threads[t].locals.reply,
                                 threads[t].locals.id)
                  ELSE IF threads[t].req.op = "get_template"
                       THEN NoteFetch(fetched, "templates", threads[t].locals.reply,
                                      threads[t].locals.id)
                       ELSE fetched
    /\ UNCHANGED <<scheme_files, font_files, template_files, okCreates, descriptors>>
    /\ SequentialOnly

NextConcurrent ==
    \E t \in Tids :
        \/ CsCheck(t)
        \/ CsSave(t)
        \/ CsInsert(t)
        \/ CsIndex(t)
        \/ CsAppend(t)
        \/ CsMeta(t)
        \/ RfCheck(t)
        \/ RfInsert(t)
        \/ RfIndex(t)
        \/ RfAppend(t)
        \/ RfMeta(t)
        \/ GetLookup(t)
        \/ GetLoad(t)
        \/ GetStore(t)

SpecConcurrent == InitConcurrent /\ [][NextConcurrent]_vars

AllReturned == \A t \in Tids : threads[t].pc = "done"

\* the id a request resolves to
RequestId(request) == Normalize(request.arg.name)

\* the create of thread t returned success=true
Created(t) ==
    /\ threads[t].pc = "done"
    /\ threads[t].req.op \in CreateOps
    /\ threads[t].result.success

\* C4 (concurrent conflict law): of two create calls on the same catalog whose
\* names normalize to the same id, however they interleave between the existence
\* check and the insertion, never both return success=true, and no id stands
\* twice in a category list.
C4_OneCreateWins ==
    /\ \A t, u \in Tids :
           (t # u /\ threads[t].req.op = threads[u].req.op
              /\ RequestId(threads[t].req) = RequestId(threads[u].req))
               => ~(Created(t) /\ Created(u))
    /\ \A c \in DOMAIN scheme_registry.categories :
           \A id \in DOMAIN scheme_registry.schemes :
               Occurrences(scheme_registry.categories[c], id) <= 1
    /\ \A c \in DOMAIN font_registry.categories :
           \A id \in DOMAIN font_registry.fonts :
               Occurrences(font_registry.categories[c], id) <= 1

\* the get of thread t found its record (and, for a font, a file) and returned
Counted(t) ==
    /\ threads[t].pc = "done"
    /\ threads[t].req.op \in GetOps
    /\ threads[t].result # None
    /\ threads[t].req.op = "get_font_path"
           => threads[t].result.path
                  # PathJoin("fonts", Stem(threads[t].req.arg.name) \o "_placeholder.txt")

\* C5 (no lost update): once all requests have returned, the stored usage_count /
\* download_count of every record equals the number of gets that hit it (the
\* counters start at 0), whatever the interleaving.
C5_NoLostUpdate ==
    AllReturned =>
        \A op \in GetOps : \A id \in DOMAIN RecordsOf(op) :
            RecordsOf(op)[id][CounterOf(op)]
                = Cardinality({t \in Tids : /\ Counted(t)
                                            /\ threads[t].req.op = op
                                            /\ RequestId(threads[t].req) = id})

-----------------------------------------------------------------------------
(* Further properties of the catalogs, requests served one at a time *)

\* the text contains the word
Mentions(text, word) ==
    \E i \in 1..(Len(text) - Len(word) + 1) : SubSeq(text, i, i + Len(word) - 1) = word

\* the mandatory fields of the descriptor of a create
RequiredOf(op) ==
    IF op = "create_scheme" THEN scheme_required_fields ELSE font_required_fields

\* C11 (aggregated validation of mandatory fields): the response of create_scheme
\* or register_custom_font to a descriptor that lacks mandatory fields is a
\* failure whose error reports every missing field, not only the first one.
C11_AllMissingReported ==
    ret.op \in {"create_scheme", "register_custom_font"} =>
        \A i \in 1..Len(RequiredOf(ret.op)) :
            ~Has(ret.arg, RequiredOf(ret.op)[i]) =>
                /\ ~ret.result.success
                /\ Mentions(ret.result.error, RequiredOf(ret.op)[i])

\* the categories of each kind named by the data model
SchemeCategoryEnum == {"academic", "modern", "corporate", "creative"}

FontCategoryEnum == {"serif", "sans_serif", "monospace", "decorative"}

TemplateCategoryEnum == {"html", "css", "latex", "markdown"}

\* every record of the catalog has a category of the enum, and the index has
\* exactly the enum as its keys
EnumOnly(records, categories, enum) ==
    /\ \A id \in DOMAIN records : records[id].category \in enum
    /\ DOMAIN categories = enum

\* C12 as stated (categories are a closed enum): every record of every catalog has
\* a category of its kind's enum and the key set of each category index is that
\* enum, so a create with another category adds no record.
C12_CategoriesAreEnum ==
    /\ EnumOnly(scheme_registry.schemes, scheme_registry.categories, SchemeCategoryEnum)
    /\ EnumOnly(font_registry.fonts, font_registry.categories, FontCategoryEnum)
    /\ EnumOnly(template_registry.templates, template_registry.categories,
                TemplateCategoryEnum)

\* the index has a key for every category of the enum and of a record, and the
\* built-in records have categories of the enum
EnumCovered(records, categories, enum, builtin) ==
    /\ enum \subseteq DOMAIN categories
    /\ \A id \in DOMAIN records : records[id].category \in DOMAIN categories
    /\ \A id \in builtin : id \in DOMAIN records /\ records[id].category \in enum
    /\ \A c \in DOMAIN categories \ enum :
           \E id \in DOMAIN records \ builtin : records[id].category = c

\* C12 as amended (categories are open): every built-in record has a category of
\* its kind's enum, the key set of each category index contains the enum, and every
\* record's category is a key of the index; a key outside the enum is the category
\* of a created record (a create with a new category adds the record and the key).
C12_CategoriesCoverEnum ==
    /\ EnumCovered(scheme_registry.schemes, scheme_registry.categories,
                   SchemeCategoryEnum, BuiltinSchemeIds)
    /\ EnumCovered(font_registry.fonts, font_registry.categories,
                   FontCategoryEnum, BuiltinFontIds)
    /\ EnumCovered(template_registry.templates, template_registry.categories,
                   TemplateCategoryEnum, DOMAIN create_default_templates.registry.templates)

\* a scheme and a font were created with a category outside the enums
C12_Witness ==
    /\ \E id \in DOMAIN scheme_registry.schemes :
           /\ scheme_registry.schemes[id].category \notin SchemeCategoryEnum
           /\ Has(scheme_registry.categories, scheme_registry.schemes[id].category)
    /\ \E id \in DOMAIN font_registry.fonts :
           /\ font_registry.fonts[id].category \notin FontCategoryEnum
           /\ Has(font_registry.categories, font_registry.fonts[id].category)

\* the roles of a colors mapping
Roles(colors) == {colors[i][1] : i \in 1..Len(colors)}

RequiredRoles ==
    {"primary", "secondary", "accent", "background", "text", "text_secondary",
     "border", "highlight", "error", "success"}

\* the color values of the built-in schemes and of the requests, matched against
\* the accepted syntaxes once
KnownColors ==
    [v \in UNION {{m[i][2] : i \in 1..Len(m)} :
                     m \in {default_schemes[k].colors : k \in 1..Len(default_schemes)}
                              \cup {d.colors : d \in {x \in SchemeDescriptors :
                                                           Has(x, "colors")}}} |->
        ColorMatches(v)]

\* a color value has one of the accepted syntaxes
WellFormedColor(v) == IF v \in DOMAIN KnownColors THEN KnownColors[v] ELSE ColorMatches(v)

\* C13 as stated (ten roles): every color scheme of the registry has a colors
\* mapping with exactly the 10 required roles, so create_scheme registers no scheme
\* whose mapping lacks a role, has an extra role or is empty.
C13_ExactlyTenRoles ==
    \A id \in DOMAIN scheme_registry.schemes :
        /\ Roles(scheme_registry.schemes[id].colors) = RequiredRoles
        /\ Len(scheme_registry.schemes[id].colors) = Cardinality(RequiredRoles)

\* C13 as amended (roles are not checked): every built-in scheme has exactly the
\* 10 required roles, and every scheme of the registry has only well-formed color
\* values; a created scheme has the roles of its descriptor, whichever they are.
C13_BuiltinTenRolesAllWellFormed ==
    /\ \A id \in BuiltinSchemeIds :
           /\ id \in DOMAIN scheme_registry.schemes
           /\ Roles(scheme_registry.schemes[id].colors) = RequiredRoles
           /\ Len(scheme_registry.schemes[id].colors) = Cardinality(RequiredRoles)
    /\ \A id \in DOMAIN scheme_registry.schemes :
           \A i \in 1..Len(scheme_registry.schemes[id].colors) :
               WellFormedColor(scheme_registry.schemes[id].colors[i][2])
    /\ (ret.op = "create_scheme" /\ ret.result.success) =>
           scheme_registry.schemes[ret.result.scheme_id].colors = ret.arg.colors

\* schemes were created with a role missing, with no role, and with an extra role
C13_Witness ==
    /\ \E id \in DOMAIN scheme_registry.schemes :
           /\ scheme_registry.schemes[id].colors # <<>>
           /\ ~(RequiredRoles \subseteq Roles(scheme_registry.schemes[id].colors))
    /\ \E id \in DOMAIN scheme_registry.schemes :
           \/ scheme_registry.schemes[id].colors = <<>>
           \/ /\ RequiredRoles \subseteq Roles(scheme_registry.schemes[id].colors)
              /\ RequiredRoles # Roles(scheme_registry.schemes[id].colors)

\* every record of before is a record of after with the same fields, none of them
\* changed but the counter, which did not decrease
OnlyGrows(before, after, counter) ==
    \A id \in DOMAIN before :
        /\ id \in DOMAIN after
        /\ \/ after[id] = before[id]
           \/ /\ DOMAIN after[id] = DOMAIN before[id]
              /\ \A f \in DOMAIN before[id] \ {counter} : after[id][f] = before[id][f]
              /\ after[id][counter] >= before[id][counter]

\* C14 (no removal, no replacement): in every step the key set of each primary map
\* only grows, every built-in id stays present, the stored fields of an existing
\* record other than its counter do not change, and no counter decreases.
C14_RecordsOnlyGrow ==
    [][ /\ OnlyGrows(scheme_registry.schemes, scheme_registry'.schemes, "usage_count")
        /\ OnlyGrows(font_registry.fonts, font_registry'.fonts, "download_count")
        /\ OnlyGrows(template_registry.templates, template_registry'.templates,
                     "usage_count")
        /\ BuiltinSchemeIds \subseteq DOMAIN scheme_registry'.schemes
        /\ BuiltinFontIds \subseteq DOMAIN font_registry'.fonts
        /\ DOMAIN create_default_templates.registry.templates
               \subseteq DOMAIN template_registry'.templates ]_vars

\* a create under another spelling of a built-in scheme that had been fetched was
\* rejected, and the record is as it was built, with its count
C14_Witness ==
    /\ ret.op = "create_scheme"
    /\ Has(ret.arg, "name")
    /\ ret.arg.name = "academic-blue"
    /\ ~ret.result.success
    /\ scheme_registry.schemes["academic_blue"].usage_count = 1
    /\ scheme_registry.schemes["academic_blue"].category = "academic"
    /\ scheme_registry.schemes["academic_blue"].name = "Academic Blue"

\* the record is the one the descriptor asked for
Matches(record, descriptor) ==
    /\ record # None
    /\ record.colors = descriptor.colors
    /\ record.name = descriptor.name
    /\ record.category = descriptor.category

\* C15 (create/get round trip): once create_scheme has succeeded for a descriptor,
\* in every later state a get_scheme under any name that normalizes to the same id
\* returns a record with the descriptor's colors, name and category, and so did the
\* get_scheme that was served last.
C15_CreateGetRoundTrip ==
    \A id \in DOMAIN descriptors :
        /\ \A n \in SchemeNames :
               NormalizeId(n) = NormalizeId(descriptors[id].name)
                   => Matches(get_scheme(scheme_registry, n).result, descriptors[id])
        /\ (ret.op = "get_scheme"
              /\ NormalizeId(ret.arg.name) = NormalizeId(descriptors[id].name))
               => Matches(ret.result, descriptors[id])

\* a scheme created as "test-blue" was fetched as "Test Blue"
C15_Witness ==
    /\ ret.op = "get_scheme"
    /\ ret.arg.name = "Test Blue"
    /\ \E id \in DOMAIN descriptors :
           /\ descriptors[id].name = "test-blue"
           /\ ret.result # None
           /\ ret.result.colors = descriptors[id].colors

\* the ids of the records of a category
IdsOfCategory(records, category) ==
    {id \in DOMAIN records : records[id].category = category}

\* the answer of a by-category listing, as the claim expects it
ByCategoryOk(result, category, records, categories, field) ==
    IF category \notin DOMAIN categories
    THEN /\ DOMAIN result = {"error", "available_categories"}
         /\ result.available_categories = DOMAIN categories
    ELSE /\ "error" \notin DOMAIN result
         /\ result.category = category
         /\ {result[field][i].id : i \in 1..Len(result[field])}
                = IdsOfCategory(records, category)
         /\ Len(result[field]) = Cardinality(IdsOfCategory(records, category))
         /\ result.count = Cardinality(IdsOfCategory(records, category))
         /\ \A i \in 1..Len(result[field]) :
                result[field][i].name = records[result[field][i].id].name

\* C16 (listing by category): get_schemes_by_category, get_fonts_by_category and
\* get_templates_by_category change no state; for a category that is no key of the
\* category index they return an error payload with exactly the keys of the index,
\* for a key of the index exactly the records of that category, each once, with
\* count equal to their number.
C16_ByCategory ==
    [][ /\ Step("get_schemes_by_category")
            => /\ ByCategoryOk(ret'.result, ret'.arg.name, scheme_registry.schemes,
                               scheme_registry.categories, "schemes")
               /\ UNCHANGED <<scheme_registry, scheme_files, font_registry, font_files,
                              template_registry, template_files>>
        /\ Step("get_fonts_by_category")
            => /\ ByCategoryOk(ret'.result, ret'.arg.name, font_registry.fonts,
                               font_registry.categories, "fonts")
               /\ UNCHANGED <<scheme_registry, scheme_files, font_registry, font_files,
                              template_registry, template_files>>
        /\ Step("get_templates_by_category")
            => /\ ByCategoryOk(ret'.result, ret'.arg.name, template_registry.templates,
                               template_registry.categories, "templates")
               /\ UNCHANGED <<scheme_registry, scheme_files, font_registry, font_files,
                              template_registry, template_files>> ]_vars

\* after a scheme was created in a new category, a listing of an unknown category
\* named the new category among the valid ones
C16_Witness ==
    /\ ret.op = "get_schemes_by_category"
    /\ ret.arg.name = "serif"
    /\ "error" \in DOMAIN ret.result
    /\ "pastel" \in ret.result.available_categories
    /\ "academic" \in ret.result.available_categories

-----------------------------------------------------------------------------
(* Font path resolution, over the files that may be installed in fonts/ *)

PathFontNames == FontNames \cup {"Helvetica", "helvetica"}

PathFontFiles == {"times_new_roman.ttf", "my_font.ttf", "my_font.otf", "helvetica.otf"}

InitFontPath ==
    /\ \E present \in SUBSET PathFontFiles : InitCatalogs(present)
    /\ ret = Response("init", [name |-> ""], None, NoRoute)
    /\ nops = 0
    /\ threads = ThreadsIdle
    /\ probe = ProbeIdle

NextFontPath ==
    \/ \E font_data \in FontDescriptors : RegisterCustomFont(font_data)
    \/ \E font_name \in PathFontNames : GetFontPath(font_name)

SpecFontPath == InitFontPath /\ [][NextFontPath]_vars

\* the positions of the declared formats whose file is in fonts/
PresentAt(files, name, formats) ==
    {i \in 1..Len(formats) : (Stem(name) \o "." \o formats[i]) \in DOMAIN files}

\* the path names a file of fonts/
Exists(path, files) == \E f \in DOMAIN files : PathJoin("fonts", f) = path

\* C17 (font path resolution): get_font_path on a registered font returns the path
\* of the first declared format, in list order, whose file exists, and writes
\* nothing; if no such file exists it writes the placeholder file and returns its
\* path; either way the result is a path of a file that exists when the call
\* returns. On an unregistered font it returns None and writes no placeholder.
C17_FontPathResolution ==
    [][ Step("get_font_path") =>
          IF Normalize(ret'.arg.name) \in DOMAIN font_registry.fonts
          THEN LET name == ret'.arg.name
                   formats == font_registry.fonts[Normalize(name)].formats
                   present == PresentAt(font_files, name, formats)
                   first == CHOOSE i \in present : \A j \in present : i <= j
               IN  /\ ret'.result # None
                   /\ Exists(ret'.result.path, font_files')
                   /\ present # {} =>
                          /\ ret'.result.path
                                 = "fonts/" \o Stem(name) \o "." \o formats[first]
                          /\ font_files' = font_files
                   /\ present = {} =>
                          /\ ret'.result.path
                                 = "fonts/" \o Stem(name) \o "_placeholder.txt"
                          /\ DOMAIN font_files'
                                 = DOMAIN font_files \cup {Stem(name) \o "_placeholder.txt"}
                          /\ \A f \in DOMAIN font_files \ {Stem(name) \o "_placeholder.txt"} :
                                 font_files'[f] = font_files[f]
          ELSE /\ ret'.result = None
               /\ font_files' = font_files ]_vars

\* a font registered with the formats otf, ttf, both files installed: the path of
\* the otf file was returned
C17_Witness ==
    /\ ret.op = "get_font_path"
    /\ ret.result = [path |-> "fonts/my_font.otf"]
    /\ Has(font_files, "my_font.ttf")
    /\ Has(font_files, "my_font.otf")
    /\ font_registry.fonts["my_font"].formats = <<"otf", "ttf">>

-----------------------------------------------------------------------------
(* Bundles: POST /api/assets/bundle, over the files that may be on disk *)

MaxBundles == 1

BundleStyles == {"ieee", "retro", "ieee_css_stylesheet"}

\* include_fonts, include_color_schemes, include_templates
BundleFlags == {<<TRUE, TRUE, TRUE>>, <<TRUE, FALSE, FALSE>>, <<FALSE, TRUE, TRUE>>,
                <<FALSE, FALSE, FALSE>>}

BundleConfigs ==
    {[style |-> s, include_fonts |-> f[1], include_color_schemes |-> f[2],
      include_templates |-> f[3]] : s \in BundleStyles, f \in BundleFlags}
    \cup {<<>>,
          [name |-> "demo", style |-> "ieee"],
          [style |-> "modern", include_color_schemes |-> FALSE,
           metadata |-> [owner |-> "lab"]]}

\* files that may have been installed beside the ones the services write
InstalledFonts == {"times-new-roman.ttf", "arial.ttf"}

InstalledSchemes == {"academic.json"}

InstalledTemplates == {"ieee_article.html"}

InitBundle ==
    /\ \E fonts \in SUBSET InstalledFonts, schemes \in SUBSET InstalledSchemes,
          templates \in SUBSET InstalledTemplates :
           /\ font_files = [f \in fonts |-> "font data"]
           /\ scheme_files = [f \in DOMAIN create_default_schemes.files \cup schemes |->
                                 IF f \in schemes THEN "scheme data"
                                 ELSE create_default_schemes.files[f]]
           /\ template_files =
                  [f \in DOMAIN create_default_templates.files \cup templates |->
                      IF f \in templates THEN "template text"
                      ELSE create_default_templates.files[f]]
    /\ scheme_registry = create_default_schemes.registry
    /\ font_registry = register_default_fonts
    /\ template_registry = create_default_templates.registry
    /\ asset_registry = initialize_asset_registry
    /\ bundle_files = <<>>
    /\ okCreates = <<>>
    /\ descriptors = <<>>
    /\ fetched = <<>>
    /\ ret = Response("init", [name |-> ""], None, NoRoute)
    /\ nops = 0
    /\ threads = ThreadsIdle
    /\ probe = ProbeIdle

CatalogsKept ==
    UNCHANGED <<scheme_registry, scheme_files, font_registry, font_files,
                template_registry, template_files, okCreates, descriptors, fetched,
                threads, probe>>

\* the request is the nops-th one; the clock reads nops when it is served
BundleServed == nops < MaxBundles /\ nops' = nops + 1 /\ CatalogsKept

\* create_asset_bundle, create_bundle returning
CreateBundle(bundle_config) ==
    /\ BundleServed
    /\ LET out == create_bundle(asset_registry, bundle_files,
                                Disk(font_files, scheme_files, template_files),
                                bundle_config, nops)
       IN  /\ asset_registry' = out.registry
           /\ bundle_files' = out.files
           /\ ret' = Response("create_bundle", bundle_config, out.result, "200")

\* create_asset_bundle, an OSError raised inside the "with" block of create_bundle
\* after `written` entries (or by the ZipFile constructor: no file, written = -1);
\* the block closes the archive, the exception reaches the route's handler
CreateBundleFails(bundle_config) ==
    /\ BundleServed
    /\ LET manifest == bundle_manifest(bundle_config,
                                       Disk(font_files, scheme_files, template_files),
                                       nops)
       IN  \E written \in -1..(Len(bundle_entries(manifest)) - 1) :
               bundle_files' = IF written = -1 THEN bundle_files
                               ELSE Put(bundle_files, manifest.bundle_id \o ".zip",
                                        Archive(manifest, written))
    /\ asset_registry' = asset_registry
    /\ ret' = Response("create_bundle", bundle_config,
                       [error |-> "Failed to create asset bundle"], "500")

NextBundle ==
    \/ \E bundle_config \in BundleConfigs : CreateBundle(bundle_config)
    \/ \E bundle_config \in BundleConfigs : CreateBundleFails(bundle_config)

SpecBundle == InitBundle /\ [][NextBundle]_vars

BundleKinds == {"fonts", "color_schemes", "templates"}

\* the include flag of a kind, true when the request leaves it out
Included(bundle_config, kind) == GetOr(bundle_config, "include_" \o kind, TRUE)

\* the assets a style resolves to, per kind
Resolved(bundle_config, kind) ==
    LET style_name == GetOr(bundle_config, "style", "default")
    IN  CASE kind = "fonts" -> get_style_fonts(style_name)
          [] kind = "color_schemes" -> get_style_color_schemes(style_name)
          [] kind = "templates" -> get_style_templates(style_name)

\* the positions of the resolved assets of a kind whose file is in its directory
Backed(bundle_config, kind) ==
    LET directory == CASE kind = "fonts" -> font_files
                       [] kind = "color_schemes" -> scheme_files
                       [] kind = "templates" -> template_files
    IN  {i \in 1..Len(Resolved(bundle_config, kind)) :
             Resolved(bundle_config, kind)[i].filename \in DOMAIN directory}

\* create_bundle returned in this step
Bundled == Step("create_bundle") /\ ret'.status = "200"

\* C18 (bundle counts): of a create_bundle that returns, each asset_count entry is
\* the length of that kind's list in the manifest; it is 0 for a kind whose include
\* flag is false and, for a kind whose flag is true or left out, the number of the
\* style's assets of that kind whose file was on disk when the bundle was built.
C18_BundleCounts ==
    [][ Bundled =>
          \A kind \in BundleKinds :
              /\ ret'.result.asset_count[kind]
                     = Len(asset_registry'.bundles[ret'.result.bundle_id]
                               .manifest.assets[kind])
              /\ ret'.result.asset_count[kind]
                     = IF Included(ret'.arg, kind)
                       THEN Cardinality(Backed(ret'.arg, kind)) ELSE 0 ]_vars

\* fonts only, for a style with one font, installed: 1 font, and no color scheme
\* although a scheme file of the style is on disk
C18_Witness ==
    /\ ret.op = "create_bundle"
    /\ ret.status = "200"
    /\ ret.arg = [style |-> "ieee", include_fonts |-> TRUE,
                  include_color_schemes |-> FALSE, include_templates |-> FALSE]
    /\ ret.result.asset_count = [fonts |-> 1, color_schemes |-> 0, templates |-> 0]
    /\ Has(scheme_files, "academic.json")
    /\ Has(font_files, "arial.ttf")

\* the names of the entries of an archive
ArcNames(archive) == {archive.entries[i].arcname : i \in 1..Len(archive.entries)}

\* list holds exactly the assets of resolved at the positions keep, in their order
ListsInOrder(list, resolved, keep) ==
    /\ Len(list) = Cardinality(keep)
    /\ \A j \in 1..Len(list) : \E i \in keep : list[j] = resolved[i]
    /\ \A j, k \in 1..Len(list) :
           j < k => \E a, b \in keep : a < b /\ list[j] = resolved[a] /\ list[k] = resolved[b]

\* C19 (bundle contents): a create_bundle that meets no I/O failure returns
\* success=true with no error or warning, also when every file is missing; for an
\* included kind the manifest lists exactly the resolved assets whose file exists,
\* in resolution order, for an excluded kind none; the archive holds one entry
\* "<kind>/<filename>" per listed asset and the entry manifest.json, nothing else.
C19_BundleContents ==
    [][ Bundled =>
          LET manifest == asset_registry'.bundles[ret'.result.bundle_id].manifest
              archive == bundle_files'[ret'.result.bundle_id \o ".zip"]
              listed == {<<kind, i>> \in BundleKinds \X (1..2) :
                            i <= Len(manifest.assets[kind])}
          IN  /\ ret'.result.success
              /\ DOMAIN ret'.result \cap {"error", "errors", "warnings"} = {}
              /\ \A kind \in BundleKinds :
                     ListsInOrder(manifest.assets[kind], Resolved(ret'.arg, kind),
                                  IF Included(ret'.arg, kind)
                                  THEN Backed(ret'.arg, kind) ELSE {})
              /\ ArcNames(archive)
                     = {p[1] \o "/" \o manifest.assets[p[1]][p[2]].filename : p \in listed}
                           \cup {"manifest.json"}
              /\ Len(archive.entries) = Cardinality(listed) + 1
              /\ archive.manifest = manifest ]_vars

\* a bundle of a style with two fonts, the first one missing: the second is listed
\* and archived, and a bundle was built
C19_Witness ==
    /\ ret.op = "create_bundle"
    /\ ret.status = "200"
    /\ ret.arg = [style |-> "retro", include_fonts |-> TRUE,
                  include_color_schemes |-> TRUE, include_templates |-> TRUE]
    /\ ~Has(font_files, "times-new-roman.ttf")
    /\ ~Has(scheme_files, "academic.json")
    /\ ArcNames(bundle_files[ret.result.bundle_id \o ".zip"])
           = {"fonts/arial.ttf", "manifest.json"}

\* C20 (failure atomicity of create_bundle): when an I/O failure interrupts the
\* writing of the archive, the call fails with the generic error, the bundles
\* registry gets no entry, every archive handle is closed, and no file remains at
\* the bundle's path.
C20_FailedBundleLeavesNothing ==
    [][ (Step("create_bundle") /\ ret'.status = "500") =>
          /\ ret'.result = [error |-> "Failed to create asset bundle"]
          /\ asset_registry' = asset_registry
          /\ \A f \in DOMAIN bundle_files' : bundle_files'[f].closed
          /\ (generate_bundle_id(GetOr(ret'.arg, "name", "default_bundle"),
                                 GetOr(ret'.arg, "style", "default"), nops) \o ".zip")
                 \notin DOMAIN bundle_files' ]_vars

-----------------------------------------------------------------------------
\* AssetManager.validate_assets (asset_manager.py)

\* a file that holds a JSON document is kept as the value the document decodes
\* to; any other file as its text
JsonObject(members) == [type |-> "object", members |-> members]
JsonArray(items) == [type |-> "array", items |-> items]
JsonNumber(n) == [type |-> "number", n |-> n]
JsonFile(value) == [json |-> value]
TextFile(text) == [text |-> text]

\* the file at a path into one of the asset directories
FileAt(disk, path) ==
    LET d == CHOOSE d \in DOMAIN disk : \E f \in DOMAIN disk[d] : PathJoin(d, f) = path
    IN  disk[d][CHOOSE f \in DOMAIN disk[d] : PathJoin(d, f) = path]

\* os.path.getsize(path)
getsize(disk, path) ==
    LET file == FileAt(disk, path) IN IF Has(file, "text") THEN Len(file.text) ELSE 1

\* str.endswith(suffix)
EndsWith(s, suffix) ==
    Len(s) >= Len(suffix) /\ SubSeq(s, Len(s) - Len(suffix) + 1, Len(s)) = suffix

font_formats == {".ttf", ".otf", ".woff", ".woff2"}
template_formats == {".html", ".css", ".js", ".tex", ".md"}

\* path.lower().endswith(formats)
HasFormat(path, formats) ==
    LET lowered == StrLower(path) IN \E suffix \in formats : EndsWith(lowered, suffix)

\* "'path' in asset and os.path.exists(asset['path'])"
Found(disk, asset) == Has(asset, "path") /\ PathExists(disk, asset.path)

\* an exception that leaves the function
Raise(exception) == [raised |-> exception]
Raised(out) == Has(out, "raised")

\* one pass of the loop of _validate_fonts
validate_font(validation, disk, font) ==
    LET font_check == [name |-> GetOr(font, "name", "Unknown"),
                       exists |-> Found(disk, font),
                       valid_format |-> Found(disk, font) /\ HasFormat(font.path, font_formats),
                       size |-> IF Found(disk, font) THEN getsize(disk, font.path) ELSE 0]
        error == IF ~Found(disk, font)
                 THEN <<"Font file not found: " \o GetOr(font, "path", "No path specified")>>
                 ELSE IF ~HasFormat(font.path, font_formats)
                      THEN <<"Invalid font format: " \o font.path>>
                      ELSE <<>>
    IN  [valid |-> validation.valid /\ error = <<>>,
         errors |-> validation.errors \o error,
         checked |-> Append1(validation.checked, font_check)]

\* one pass of the loop of _validate_templates as a strict check would make it
validate_template_Strict(validation, disk, template) ==
    LET out == validate_font(validation, disk, template)
    IN  [out EXCEPT !.valid = validation.valid /\ Found(disk, template)
                                 /\ HasFormat(template.path, template_formats)]

\* one pass of the loop of _validate_templates: an unknown format is reported and
\* leaves valid as it is
validate_template(validation, disk, template) ==
    LET template_check ==
            [name |-> GetOr(template, "name", "Unknown"),
             exists |-> Found(disk, template),
             valid_format |-> Found(disk, template)
                                  /\ HasFormat(template.path, template_formats),
             size |-> IF Found(disk, template) THEN getsize(disk, template.path) ELSE 0]
        error == IF ~Found(disk, template)
                 THEN <<"Template file not found: "
                            \o GetOr(template, "path", "No path specified")>>
                 ELSE IF ~HasFormat(template.path, template_formats)
                      THEN <<"Unknown template format: " \o template.path>>
                      ELSE <<>>
    IN  [valid |-> validation.valid /\ Found(disk, template),
         errors |-> validation.errors \o error,
         checked |-> Append1(validation.checked, template_check)]

\* json.load(f)
json_load(file) == IF Has(file, "json") THEN file.json ELSE Raise("JSONDecodeError")

\* len(scheme_data.get('colors', {})): get is a method of dict alone, len is
\* defined on objects, arrays and strings
color_count(scheme_data) ==
    IF scheme_data.type # "object" THEN Raise("AttributeError")
    ELSE LET colors == GetOr(scheme_data.members, "colors", JsonObject(<<>>))
         IN  IF colors.type = "object" THEN [count |-> Cardinality(DOMAIN colors.members)]
             ELSE IF colors.type = "array" THEN [count |-> Len(colors.items)]
             ELSE Raise("TypeError")

\* one pass of the loop of _validate_color_schemes; only json.JSONDecodeError is
\* caught
validate_color_scheme(validation, disk, scheme) ==
    LET scheme_data == IF Found(disk, scheme) THEN json_load(FileAt(disk, scheme.path))
                       ELSE None
        parsed == Found(disk, scheme) /\ ~Raised(scheme_data)
        counted == IF parsed THEN color_count(scheme_data) ELSE [count |-> 0]
        scheme_check == [name |-> GetOr(scheme, "name", "Unknown"),
                         exists |-> Found(disk, scheme),
                         valid_json |-> parsed,
                         color_count |-> IF Raised(counted) THEN 0 ELSE counted.count]
        error == IF ~Found(disk, scheme)
                 THEN <<"Color scheme file not found: "
                            \o GetOr(scheme, "path", "No path specified")>>
                 ELSE IF ~parsed
                      THEN <<"Invalid JSON in color scheme: " \o scheme.path>>
                      ELSE <<>>
    IN  IF Raised(counted) THEN counted
        ELSE [valid |-> validation.valid /\ error = <<>>,
              errors |-> validation.errors \o error,
              checked |-> Append1(validation.checked, scheme_check)]

\* the loop body of the validator of a kind
validate_asset(kind, validation, disk, asset) ==
    IF kind = "fonts" THEN validate_font(validation, disk, asset)
    ELSE IF kind = "color_schemes" THEN validate_color_scheme(validation, disk, asset)
    ELSE validate_template(validation, disk, asset)

\* "for asset in assets:" of the validator of a kind, up to the first exception
RECURSIVE ValidateEach(_, _, _, _)
ValidateEach(kind, validation, disk, assets) ==
    IF Raised(validation) \/ assets = <<>> THEN validation
    ELSE ValidateEach(kind, validate_asset(kind, validation, disk, Head(assets)),
                      disk, Tail(assets))

NoChecks == [valid |-> TRUE, errors |-> <<>>, checked |-> <<>>]

\* the result of a per-kind validation, the list of checks under the kind's key
Checked(validation, key) ==
    IF Raised(validation) THEN validation
    ELSE [x \in {"valid", "errors", key} |->
             IF x = key THEN validation.checked ELSE validation[x]]

validate_fonts(disk, fonts) ==
    Checked(ValidateEach("fonts", NoChecks, disk, fonts), "checked_fonts")

validate_color_schemes(disk, color_schemes) ==
    Checked(ValidateEach("color_schemes", NoChecks, disk, color_schemes),
            "checked_schemes")

validate_templates(disk, templates) ==
    Checked(ValidateEach("templates", NoChecks, disk, templates),
            "checked_templates")


\* _check_asset_compatibility
check_asset_compatibility(asset_config) ==
    LET serif_fonts == SelectSeq(asset_config.fonts,
                                 LAMBDA f : GetOr(f, "type", "") = "serif")
        warned == /\ Has(asset_config, "fonts")
                  /\ Has(asset_config, "color_schemes")
                  /\ serif_fonts # <<>>
                  /\ GetOr(asset_config, "style", "") = "modern"
    IN  [compatible |-> TRUE,
         warnings |-> IF warned
                      THEN <<"Serif fonts may not be optimal for modern style designs">>
                      ELSE <<>>,
         recommendations |-> IF warned
                             THEN <<"Consider using sans-serif fonts for modern designs">>
                             ELSE <<>>]

\* the kinds validate_assets looks at, in its order
ValidatedKinds == <<"fonts", "color_schemes", "templates">>

\* "if '<kind>' in asset_config" for the three kinds
SectionsOf_All(asset_config) == {ValidatedKinds[i] : i \in 1..Len(ValidatedKinds)}

SectionsOf(asset_config) ==
    {ValidatedKinds[i] : i \in 1..Len(ValidatedKinds)} \cap DOMAIN asset_config

\* self._validate_<kind>(asset_config['<kind>'])
validate_kind(kind, disk, assets) ==
    IF kind = "fonts" THEN validate_fonts(disk, assets)
    ELSE IF kind = "color_schemes" THEN validate_color_schemes(disk, assets)
    ELSE validate_templates(disk, assets)

\* the body of "if '<kind>' in asset_config": the check is stored, an invalid one
\* clears valid and hands its errors on
StoreCheck_AllErrors(validation_result, kind, validation) ==
    [validation_result EXCEPT !.asset_checks = Put(@, kind, validation),
                              !.valid = @ /\ validation.valid,
                              !.errors = @ \o validation.errors]

StoreCheck(validation_result, kind, validation) ==
    [validation_result EXCEPT !.asset_checks = Put(@, kind, validation),
                              !.valid = @ /\ validation.valid,
                              !.errors = IF validation.valid THEN @
                                         ELSE @ \o validation.errors]

\* the three "if '<kind>' in asset_config" blocks from the i-th on
RECURSIVE ValidateSections(_, _, _, _)
ValidateSections(validation_result, disk, asset_config, i) ==
    IF i > Len(ValidatedKinds) THEN validation_result
    ELSE IF ValidatedKinds[i] \notin SectionsOf(asset_config)
         THEN ValidateSections(validation_result, disk, asset_config, i + 1)
         ELSE LET kind == ValidatedKinds[i]
                  validation == validate_kind(kind, disk, GetOr(asset_config, kind, <<>>))
              IN  IF Raised(validation) THEN validation
                  ELSE ValidateSections(StoreCheck(validation_result, kind, validation),
                                        disk, asset_config, i + 1)

\* validate_assets: the result, or the exception that leaves it
validate_assets(disk, asset_config, now) ==
    LET validation_result ==
            ValidateSections([valid |-> TRUE, errors |-> <<>>, warnings |-> <<>>,
                              asset_checks |-> <<>>, timestamp |-> now],
                             disk, asset_config, 1)
        compatibility_check == check_asset_compatibility(asset_config)
    IN  IF Raised(validation_result) THEN validation_result
        ELSE [x \in DOMAIN validation_result \cup {"compatibility"} |->
                 IF x = "compatibility" THEN compatibility_check
                 ELSE IF x = "warnings"
                      THEN validation_result.warnings \o compatibility_check.warnings
                      ELSE validation_result[x]]


-----------------------------------------------------------------------------
\* AssetManager.sync_with_services (asset_manager.py); the entries of
\* target_services are peer names

service_urls == {"styles_gallery", "publication_style_config_server", "distance_server"}

\* _sync_with_service
sync_with_service(service, sync_type, now) ==
    IF service \notin service_urls
    THEN [success |-> FALSE, error |-> "Unknown service: " \o service]
    ELSE [success |-> TRUE, service |-> service, sync_type |-> sync_type,
          assets_synced |-> 15, timestamp |-> now]

\* one pass of the loop of sync_with_services as a batch that stops at a failure
sync_one_Abort(sync_result, service, sync_type, now) ==
    IF sync_result.failed_services # <<>> THEN sync_result
    ELSE LET service_sync_result == sync_with_service(service, sync_type, now)
         IN  IF service_sync_result.success
             THEN [sync_result EXCEPT !.synced_services = Append1(@, service)]
             ELSE [sync_result EXCEPT !.failed_services =
                       Append1(@, [service |-> service,
                                   error |-> service_sync_result.error])]

\* one pass of the loop of sync_with_services
sync_one(sync_result, service, sync_type, now) ==
    LET service_sync_result == sync_with_service(service, sync_type, now)
    IN  IF service_sync_result.success
        THEN [sync_result EXCEPT !.synced_services = Append1(@, service)]
        ELSE [sync_result EXCEPT !.failed_services =
                  Append1(@, [service |-> service,
                              error |-> GetOr(service_sync_result, "error",
                                              "Unknown error")])]

\* "for service in target_services:"
RECURSIVE SyncEach(_, _, _, _)
SyncEach(sync_result, target_services, sync_type, now) ==
    IF target_services = <<>> THEN sync_result
    ELSE SyncEach(sync_one(sync_result, Head(target_services), sync_type, now),
                  Tail(target_services), sync_type, now)

\* a / b of two lengths, kept as the fraction
Ratio(a, b) == [numerator |-> a, denominator |-> b]

\* sync_with_services
sync_with_services(sync_config, now) ==
    LET target_services == GetOr(sync_config, "target_services", <<>>)
        sync_type == GetOr(sync_config, "sync_type", "push")
        sync_result == SyncEach([synced_services |-> <<>>, failed_services |-> <<>>],
                                target_services, sync_type, now)
    IN  [success |-> sync_result.failed_services = <<>>,
         synced_services |-> sync_result.synced_services,
         failed_services |-> sync_result.failed_services,
         sync_summary |->
             [total_services |-> Len(target_services),
              successful_syncs |-> Len(sync_result.synced_services),
              failed_syncs |-> Len(sync_result.failed_services),
              success_rate |-> IF target_services # <<>>
                               THEN Ratio(Len(sync_result.synced_services),
                                          Len(target_services))
                               ELSE Ratio(0, 1)],
         timestamp |-> now]

-----------------------------------------------------------------------------
\* Validation requests: the files the descriptors of a request may point at, and
\* the requests

SerifFont == [name |-> "Garamond", path |-> "fonts/serif.TTF", type |-> "serif"]
SansFont == [name |-> "Notes", path |-> "fonts/sans.txt", type |-> "sans-serif"]
PathlessFont == [name |-> "Ghost", type |-> "serif"]
ValidatedFontFiles == {"serif.TTF", "sans.txt"}

SchemeAsset == [name |-> "Ocean", path |-> "color_schemes/sea.json"]
AbsentSchemeAsset == [path |-> "color_schemes/none.json"]

\* what sea.json may hold: an object with colors, one without, one whose colors is
\* a number, an array, and text that is no JSON document
SchemeDocuments ==
    {JsonFile(JsonObject([colors |-> JsonObject([primary |-> JsonNumber(0)])])),
     JsonFile(JsonObject(<<>>)),
     JsonFile(JsonObject([colors |-> JsonNumber(5)])),
     JsonFile(JsonArray(<<>>)),
     TextFile("{")}

PageTemplate == [name |-> "Page", path |-> "templates/page.MD"]
OddTemplate == [name |-> "Odd", path |-> "templates/odd.xyz"]
PathlessTemplate == [type |-> "article"]
ValidatedTemplateFiles == {"page.MD", "odd.xyz"}

FontSections == {<<>>, <<SerifFont>>, <<PathlessFont>>, <<SansFont, SerifFont>>}
SchemeSections == {<<>>, <<SchemeAsset>>, <<SchemeAsset, AbsentSchemeAsset>>}
TemplateSections ==
    {<<>>, <<OddTemplate>>, <<OddTemplate, PageTemplate>>, <<PathlessTemplate>>}
ValidatedStyles == {"modern", "classic"}

\* the requests: every section and the style may be left out
AssetConfigs ==
    UNION {
      {[x \in keys |-> IF x = "fonts" THEN fonts
                       ELSE IF x = "color_schemes" THEN schemes
                       ELSE IF x = "templates" THEN templates ELSE style] :
          fonts \in FontSections, schemes \in SchemeSections,
          templates \in TemplateSections, style \in ValidatedStyles} :
      keys \in SUBSET {"fonts", "color_schemes", "templates", "style"}}

\* the peers a sync request may name: the three known ones and an unknown one
MaxPeers == 2
PeerNames == service_urls \cup {"archive"}
TargetLists == UNION {[1..n -> PeerNames] : n \in 0..MaxPeers}

\* the sync requests: target_services and sync_type may be left out
SyncConfigs ==
    {[target_services |-> targets] : targets \in TargetLists}
        \cup {[target_services |-> targets, sync_type |-> "pull"] : targets \in TargetLists}
        \cup {<<>>}

InitAssets ==
    /\ \E fonts \in SUBSET ValidatedFontFiles, templates \in SUBSET ValidatedTemplateFiles,
          schemes \in [{"sea.json"} -> SchemeDocuments] \cup {<<>>} :
           /\ font_files = [f \in fonts |-> TextFile("font data")]
           /\ scheme_files = schemes
           /\ template_files = [f \in templates |-> TextFile("template text")]
    /\ scheme_registry = create_default_schemes.registry
    /\ font_registry = register_default_fonts
    /\ template_registry = create_default_templates.registry
    /\ asset_registry = initialize_asset_registry
    /\ bundle_files = <<>>
    /\ okCreates = <<>>
    /\ descriptors = <<>>
    /\ fetched = <<>>
    /\ ret = Response("init", [name |-> ""], None, NoRoute)
    /\ nops = 0
    /\ threads = ThreadsIdle
    /\ probe = ProbeIdle

\* validate_assets and sync_with_services read no state but the files and write
\* none: one request per behaviour reaches every result
AssetsServed ==
    /\ nops = 0
    /\ nops' = 1
    /\ CatalogsKept
    /\ BundlesKept

\* the route validate_assets: the result, or status 500 when validate_assets raises
ValidateAssets(asset_config) ==
    /\ AssetsServed
    /\ LET out == validate_assets(Disk(font_files, scheme_files, template_files),
                                  asset_config, nops)
       IN  ret' = IF Raised(out)
                  THEN Response("validate_assets", asset_config,
                                [error |-> "Failed to validate assets"], "500")
                  ELSE Response("validate_assets", asset_config, out, "200")

\* the route sync_assets
SyncAssets(sync_config) ==
    /\ AssetsServed
    /\ ret' = Response("sync_with_services", sync_config,
                       sync_with_services(sync_config, nops), "200")

NextAssets ==
    \/ \E asset_config \in AssetConfigs : ValidateAssets(asset_config)
    \/ \E sync_config \in SyncConfigs : SyncAssets(sync_config)

SpecAssets == InitAssets /\ [][NextAssets]_vars

\* a validation that returned a result
Validated == ret.op = "validate_assets" /\ ret.status = "200"

\* C21 (errors mirror valid): in every result of validate_assets, valid is false
\* if and only if the top-level errors list is non-empty.
C21_InvalidIffErrors ==
    Validated => (ret.result.valid <=> ret.result.errors = <<>>)

\* a valid result with no top-level error whose templates check carries an error
C21_Witness ==
    /\ Validated
    /\ ret.result.valid
    /\ Has(ret.result.asset_checks, "templates")
    /\ ret.result.asset_checks.templates.errors # <<>>


\* the files as the validator sees them
ValidatedDisk == Disk(font_files, scheme_files, template_files)

\* the descriptors of a section of the request (none when the section is left out)
SectionOf(kind) ==
    LET assets == GetOr(ret.arg, kind, <<>>) IN {assets[i] : i \in 1..Len(assets)}

\* an asset whose file exists with an extension outside formats
OddFormat(asset, formats) ==
    /\ Has(asset, "path")
    /\ PathExists(ValidatedDisk, asset.path)
    /\ \A suffix \in formats : ~EndsWith(StrLower(asset.path), suffix)

\* an asset without a path or whose file does not exist
Missing(asset) == ~Has(asset, "path") \/ ~PathExists(ValidatedDisk, asset.path)

\* the check of a kind is absent or valid
KindPasses(kind) ==
    Has(ret.result.asset_checks, kind) => ret.result.asset_checks[kind].valid

\* C22 (template advisory asymmetry): an existing template file with an extension
\* outside {html, css, js, tex, md} adds a message to the errors of the templates
\* check and leaves its valid flag alone: a templates section of only such
\* descriptors is valid with a non-empty errors list, and the overall result stays
\* valid when the other sections pass; a missing template makes the kind invalid;
\* an existing font file with an extension outside {ttf, otf, woff, woff2} makes
\* the fonts kind invalid.
C22_TemplateFormatAdvisory ==
    Validated =>
        LET checks == ret.result.asset_checks
            odd == {t \in SectionOf("templates") :
                       OddFormat(t, {".html", ".css", ".js", ".tex", ".md"})}
        IN  /\ \A t \in odd :
                   \E i \in 1..Len(checks.templates.errors) :
                       checks.templates.errors[i] = "Unknown template format: " \o t.path
            /\ (odd # {} /\ odd = SectionOf("templates")) =>
                   /\ checks.templates.valid
                   /\ checks.templates.errors # <<>>
                   /\ (KindPasses("fonts") /\ KindPasses("color_schemes"))
                          => (ret.result.valid /\ ret.result.errors = <<>>)
            /\ (\E t \in SectionOf("templates") : Missing(t)) => ~checks.templates.valid
            /\ (\E f \in SectionOf("fonts") :
                    OddFormat(f, {".ttf", ".otf", ".woff", ".woff2"})) => ~checks.fonts.valid

\* a request of one template with an unknown extension, its file present, and no
\* fonts: the templates check is valid with the message, and so is the result
C22_Witness ==
    /\ Validated
    /\ Has(ret.arg, "templates") /\ ret.arg.templates = <<OddTemplate>>
    /\ ~Has(ret.arg, "fonts")
    /\ Has(template_files, "odd.xyz")
    /\ ret.result.asset_checks.templates.valid
    /\ ret.result.asset_checks.templates.errors
           = <<"Unknown template format: templates/odd.xyz">>
    /\ KindPasses("color_schemes")
    /\ ret.result.valid

\* the request without its style: no compatibility warning can arise from it
Unstyled(asset_config) == Restrict(asset_config, DOMAIN asset_config \ {"style"})

\* C23 (overall validity): asset_checks has an entry for a kind exactly when the
\* request has that section; valid is the conjunction of the valid flags of these
\* entries; every top-level error comes from the check of a present section; a
\* request without sections is valid with no errors; and valid is what it would be
\* for the same request without the style that triggers the warning.
C23_ValidIsAndOfPresent ==
    Validated =>
        LET checks == ret.result.asset_checks
        IN  /\ DOMAIN checks = {"fonts", "color_schemes", "templates"} \cap DOMAIN ret.arg
            /\ ret.result.valid <=> \A kind \in DOMAIN checks : checks[kind].valid
            /\ \A i \in 1..Len(ret.result.errors) :
                   \E kind \in DOMAIN checks : \E j \in 1..Len(checks[kind].errors) :
                       checks[kind].errors[j] = ret.result.errors[i]
            /\ DOMAIN checks = {} => (ret.result.valid /\ ret.result.errors = <<>>)
            /\ ret.result.valid
                   = validate_assets(ValidatedDisk, Unstyled(ret.arg), 0).valid

\* a request with fonts and color schemes and no templates, warned about its serif
\* font and valid
C23_Witness ==
    /\ Validated
    /\ DOMAIN ret.result.asset_checks = {"fonts", "color_schemes"}
    /\ ret.result.warnings # <<>>
    /\ ret.result.valid
    /\ ret.arg.color_schemes # <<>>


\* a color-scheme descriptor whose file exists and holds a JSON document
WellFormed(scheme) ==
    /\ Has(scheme, "path")
    /\ PathExists(ValidatedDisk, scheme.path)
    /\ Has(FileAt(ValidatedDisk, scheme.path), "json")

\* C24 (color-scheme validation checks existence and well-formedness only): when a
\* color-scheme descriptor of the request names an existing file that holds
\* well-formed JSON of any shape, validate_assets returns a result, no error of the
\* color_schemes check names that file, and a section of only such descriptors is
\* valid.
C24_WellFormedJsonAccepted ==
    (ret.op = "validate_assets" /\ \E s \in SectionOf("color_schemes") : WellFormed(s)) =>
        /\ ret.status = "200"
        /\ LET check == ret.result.asset_checks.color_schemes
           IN  /\ \A s \in SectionOf("color_schemes") :
                      WellFormed(s) =>
                          \A i \in 1..Len(check.errors) : ~Mentions(check.errors[i], s.path)
               /\ (\A s \in SectionOf("color_schemes") : WellFormed(s)) => check.valid


SerifWarning == "Serif fonts may not be optimal for modern style designs"

\* the warnings of a result hold the sans-serif recommendation warning
Warned == \E i \in 1..Len(ret.result.warnings) : ret.result.warnings[i] = SerifWarning

\* C25 (cross-asset compatibility): a result of validate_assets holds the
\* sans-serif recommendation warning exactly when the request states the style
\* "modern" and its fonts section has a font tagged serif, with or without a
\* color_schemes section; the warning is never one of the errors.
C25_SerifModernWarned ==
    Validated =>
        /\ Warned <=> /\ GetOr(ret.arg, "style", "") = "modern"
                      /\ \E f \in SectionOf("fonts") : GetOr(f, "type", "") = "serif"
        /\ \A i \in 1..Len(ret.result.errors) : ret.result.errors[i] # SerifWarning


\* a sync that returned
Synced == ret.op = "sync_with_services"

\* the targets of the request
Targets == GetOr(ret.arg, "target_services", <<>>)

\* the positions of Targets with a known (TRUE) or an unknown (FALSE) peer
PeersAt(known) == {i \in 1..Len(Targets) : (Targets[i] \in service_urls) = known}

\* C26 (sync goes through every peer): synced_services holds the known peers of
\* target_services and failed_services the unknown ones, each in request order and
\* once per entry, so that successful_syncs + failed_syncs = total_services; success
\* is true exactly when failed_services is empty, also for a request without peers.
C26_EveryPeerProcessed ==
    Synced =>
        LET result == ret.result
            failed == [i \in 1..Len(result.failed_services) |->
                          result.failed_services[i].service]
        IN  /\ ListsInOrder(result.synced_services, Targets, PeersAt(TRUE))
            /\ ListsInOrder(failed, Targets, PeersAt(FALSE))
            /\ result.sync_summary.total_services = Len(Targets)
            /\ result.sync_summary.successful_syncs = Len(result.synced_services)
            /\ result.sync_summary.failed_syncs = Len(result.failed_services)
            /\ result.sync_summary.successful_syncs + result.sync_summary.failed_syncs
                   = result.sync_summary.total_services
            /\ result.success <=> result.failed_services = <<>>
            /\ Targets = <<>> => result.success

\* an unknown peer ahead of a known one: the known one is still synced
C26_Witness ==
    /\ Synced
    /\ Targets = <<"archive", "distance_server">>
    /\ ret.result.synced_services = <<"distance_server">>
    /\ Len(ret.result.failed_services) = 1
    /\ ~ret.result.success


-----------------------------------------------------------------------------
\* Properties of the catalogs, continued (specification Spec)

\* a create of the given operation is rejected in this step
Rejected(op) == Step(op) /\ ~ret'.result.success

\* the error a rejected create must report: the first failing check in the order
\* mandatory fields, conflict, color format
ExpectedRejection(op, records, id) ==
    IF MissingFields(RequiredOf(op), ret'.arg) # <<>>
    THEN "Missing required field"
    ELSE IF id \in DOMAIN records THEN "already exists"
    ELSE "Invalid color format"

\* C27 (a rejected create changes nothing): a create_scheme or register_custom_font
\* that returns success=false leaves the registry of its catalog (records, category
\* index, total, counters) and the files of its catalog as they were, and its error
\* is that of the first failing check in the order mandatory fields, conflict,
\* color format: a duplicate name with malformed colors is reported as a conflict.
C27_RejectedCreateChangesNothing ==
    [][ /\ Rejected("create_scheme") =>
              /\ scheme_registry' = scheme_registry
              /\ scheme_files' = scheme_files
              /\ Mentions(ret'.result.error,
                          ExpectedRejection("create_scheme", scheme_registry.schemes,
                              NormalizeId(GetOr(ret'.arg, "name", ""))))
        /\ Rejected("register_custom_font") =>
              /\ font_registry' = font_registry
              /\ font_files' = font_files
              /\ Mentions(ret'.result.error,
                          ExpectedRejection("register_custom_font", font_registry.fonts,
                              NormalizeId(GetOr(ret'.arg, "name", "")))) ]_vars

\* a create of a built-in name with two malformed colors, rejected as a conflict
C27_Witness ==
    /\ ret.op = "create_scheme"
    /\ ~ret.result.success
    /\ Has(ret.arg, "colors") /\ ret.arg.colors = TwoBadColors
    /\ Mentions(ret.result.error, "already exists")
    /\ Normalize(ret.arg.name) \in BuiltinSchemeIds


\* C28 (resolution by name depends only on the normalized id): for two names with
\* the same normalized id and the same registry and files, get_font_path returns
\* the same path and changes download_count alike, and get_template_path returns
\* the same path.
C28_SameIdSamePath ==
    [][ /\ Step("get_font_path") =>
              \A other \in FontNames :
                  NormalizeId(other) = NormalizeId(ret'.arg.name) =>
                      LET out == get_font_path(font_registry, font_files, other)
                      IN  /\ out.result = ret'.result
                          /\ out.registry = font_registry'
        /\ Step("get_template_path") =>
              \A other \in TemplateNames :
                  NormalizeId(other) = NormalizeId(ret'.arg.name) =>
                      get_template_path(template_registry, template_files, other).result
                          = ret'.result ]_vars


\* the sum of the lengths of the lists of a category index
RECURSIVE SumOfLengths(_)
SumOfLengths(categories) ==
    IF DOMAIN categories = {} THEN 0
    ELSE LET c == CHOOSE c \in DOMAIN categories : TRUE
         IN  Len(categories[c]) + SumOfLengths(Restrict(categories, DOMAIN categories \ {c}))

\* total, keys and category lists of a catalog agree
TotalsAgree(records, categories, total) ==
    /\ total = Cardinality(DOMAIN records)
    /\ total = SumOfLengths(categories)

\* the answer of list() states the total and the length of every category list
ListAgrees(result_total, result_categories, categories, total) ==
    /\ result_total = total
    /\ DOMAIN result_categories = DOMAIN categories
    /\ \A c \in DOMAIN categories : result_categories[c] = Len(categories[c])

\* C29 (totals): in every state of the color-scheme and the font catalog the
\* stored total equals the number of records and the sum of the lengths of the
\* category lists; get_available_schemes and get_available_fonts return this total
\* and these lengths and change no registry.
C29_TotalsAgree ==
    /\ [](/\ TotalsAgree(scheme_registry.schemes, scheme_registry.categories,
                         scheme_registry.metadata.total_schemes)
          /\ TotalsAgree(font_registry.fonts, font_registry.categories,
                         font_registry.metadata.total_fonts))
    /\ [][ /\ Step("get_available_schemes") =>
                 /\ ListAgrees(ret'.result.total_schemes, ret'.result.categories,
                               scheme_registry.categories,
                               scheme_registry.metadata.total_schemes)
                 /\ UNCHANGED <<scheme_registry, font_registry, template_registry>>
           /\ Step("get_available_fonts") =>
                 /\ ListAgrees(ret'.result.total_fonts, ret'.result.categories,
                               font_registry.categories,
                               font_registry.metadata.total_fonts)
                 /\ UNCHANGED <<scheme_registry, font_registry, template_registry>> ]_vars

\* the schemes listed after a create that opened a category: the list counts the
\* new scheme under the new category
C29_Witness ==
    /\ ret.op = "get_available_schemes"
    /\ ret.result.total_schemes = Cardinality(BuiltinSchemeIds) + 1
    /\ \E c \in DOMAIN ret.result.categories :
           c \notin SchemeCategoryEnum /\ ret.result.categories[c] = 1


\* a get of the given operation returned a record in this step
Fetched(op) == Step(op) /\ ret'.status = "200"

\* the returned copy carries the count before the call, which is the number of
\* earlier gets that returned the record, and the stored count is one more
CopiedBeforeCount(records, recordsAfter, catalog, id) ==
    /\ ret'.result.usage_count = records[id].usage_count
    /\ recordsAfter[id].usage_count = ret'.result.usage_count + 1
    /\ ret'.result.usage_count = CountOk(fetched, catalog, id)
    /\ CountOk(fetched', catalog, id) = ret'.result.usage_count + 1

\* C30 (the copy precedes the count): the record a get_scheme / get_template
\* returns carries the usage_count stored before the call, which is the number of
\* earlier successful gets of the record; the stored usage_count is one more after
\* the call, so that the k-th successful get of a record returns k - 1.
C30_CopyBeforeCount ==
    [][ /\ Fetched("get_scheme") =>
              CopiedBeforeCount(scheme_registry.schemes, scheme_registry'.schemes,
                                "schemes", NormalizeId(ret'.arg.name))
        /\ Fetched("get_template") =>
              CopiedBeforeCount(template_registry.templates, template_registry'.templates,
                                "templates", NormalizeId(ret'.arg.name)) ]_vars

\* the second get of a template returned the count 1 and left the count 2
C30_Witness ==
    /\ ret.op = "get_template"
    /\ ret.status = "200"
    /\ ret.result.usage_count = 1
    /\ CountOk(fetched, "templates", NormalizeId(ret.arg.name)) = 2
    /\ template_registry.templates[NormalizeId(ret.arg.name)].usage_count = 2

=============================================================================
